---- MODULE Spec2Model ----
(***************************************************************************)
(* SPIR-V to LLVM reader (lib/SPIRV/SPRVReader.cpp): the translation       *)
(* engine SPRVToLLVM and its entry point llvm::ReadSPRV.                   *)
(*                                                                         *)
(* Spec      the run of ReadSPRV: translate() stage by stage, each         *)
(*           transFunction instruction by instruction (placeholder         *)
(*           protocol, identity maps, kernel metadata).                    *)
(* SpecType  the memoized type lowering transType over a type graph.       *)
(***************************************************************************)
EXTENDS Integers, Sequences, FiniteSets, TLC

\* ------------------------------------------------------------------------
\* Bounds of the inputs
\* ------------------------------------------------------------------------
MaxFuncs == 2
MaxInsts == 2
MaxVars == 1
MaxTypes == 3
MaxCalls == 4
MaxParams == 2

VARIABLES
  BM,              \* the parsed SPIR-V module (SPRVModule), read only
  NDEBUG,          \* whether assert() is compiled out
  pc,              \* position of the run inside ReadSPRV / translate()
  fi,              \* index of the loop of translate() that is running
  stack,           \* the active transFunction calls, innermost last
  ValueMap,        \* SPRVToLLVM::ValueMap
  PlaceholderMap,  \* SPRVToLLVM::PlaceholderMap
  FuncMap,         \* SPRVToLLVM::FuncMap
  BuiltinGVMap,    \* SPRVToLLVM::BuiltinGVMap
  M,               \* the llvm::Module under construction
  made,            \* number of IR objects created so far, per kind and value
  ErrorLog,        \* BM->getErrorLog()
  stages,          \* the stages of translate() entered so far, in order
  ret,             \* what translate() returned: "none", "true" or "false"
  Succeed,         \* ReadSPRV's local Succeed, its return value
  ErrMsg,          \* ReadSPRV's ErrMsg argument
  Mptr,            \* ReadSPRV's M argument: "module" or "null"
  TypeMap,         \* SPRVToLLVM::TypeMap
  Returned,        \* per SPIR-V type, what the calls of transType returned
  DbgSaveTmpLLVM,  \* the static flag DbgSaveTmpLLVM
  CanOpen,         \* whether the file DbgTmpLLVMFileName can be opened
  TmpFile          \* the content of the file DbgTmpLLVMFileName

vars == <<BM, NDEBUG, pc, fi, stack, ValueMap, PlaceholderMap, FuncMap,
          BuiltinGVMap, M, made, ErrorLog, stages, ret, Succeed, ErrMsg,
          Mptr, TypeMap, Returned, DbgSaveTmpLLVM, CanOpen, TmpFile>>

typeVars == <<TypeMap, Returned>>
dbgVars == <<DbgSaveTmpLLVM, CanOpen, TmpFile>>

\* ------------------------------------------------------------------------
\* SPIR-V values (keys of ValueMap) and IR handles
\* ------------------------------------------------------------------------
InstV(f, j) == <<"inst", f, j>>
LabelV(f, b) == <<"label", f, b>>
FuncV(f) == <<"func", f, 0>>
VarV(v) == <<"var", 0, v>>
ConstV == <<"const", 0, 0>>
ArgV(f, i) == <<"arg", f, i>>
NoValue == <<"none", 0, 0>>

Handle(k, bv, n) == [k |-> k, bv |-> bv, n |-> n]
NULL == Handle("null", NoValue, 0)

Put(f, k, v) == [x \in DOMAIN f \cup {k} |-> IF x = k THEN v ELSE f[x]]
Get0(f, k) == IF k \in DOMAIN f THEN f[k] ELSE 0
EmptyMap == [x \in {} |-> NULL]

kPlaceholderPrefix == "placeholder."

\* the messages of the assertions of mapValue and of the default case of
\* transValueWithoutDecoration
kTranslatedTwice == "A value is translated twice"
kNotImplemented == "Translation of SPIRV instruction not implemented"
kInvalidType == "Invalid type"
kNotImplementedType == "Not implemented"
kNullDereferenced == "null pointer dereferenced"

\* IR types: the null pointer, the uniqued types, and the struct types,
\* each StructType::create making a new one
NullTy == [k |-> "null"]
VoidTy == [k |-> "void"]
IntTy(w) == [k |-> "int", width |-> w]
FloatTy(w) == [k |-> "float", width |-> w]
PointerTy(elem, as) == [k |-> "pointer", elem |-> elem, as |-> as]
StructTy(T, n, body) == [k |-> "struct", of |-> T, n |-> n, body |-> body]
\* StructType::create(Context, body, name): a struct that has a body
NamedStructTy(T, n, body, name) ==
  [k |-> "struct", of |-> T, n |-> n, body |-> body, name |-> name,
   opaque |-> FALSE]

\* ConstantInt::get(Ty, val)
ConstantInt(ty, val) == Handle(ty, <<"lit", val, 0>>, 0)

\* a name: what it starts with, what tells it from the other names with
\* that start, and the parts that have been appended to it
Name(prefix, base) == [prefix |-> prefix, base |-> base, suffix |-> <<>>]

\* ------------------------------------------------------------------------
\* The inputs
\* ------------------------------------------------------------------------
\* lit: the literal operands of the instruction and what it reads of the
\* types of its operands: the index of a composite extract; the storage
\* classes of the pointer types of the target and the source of a memory
\* copy, the width of the type of its size, its alignment and its volatile
\* flag; the FP rounding mode of a conversion ("" for none), its saturated
\* conversion flag, the OpenCL name of the type it converts to taken as
\* signed, and whether that type is wider than the type of its operand
NoLit ==
  [index |-> 0, trg |-> "", src |-> "", width |-> 0, align |-> 0,
   volatile |-> 0, rounding |-> "", sat |-> FALSE, ty |-> "", ext |-> FALSE]
Instr(op, ops, callee) ==
  [op |-> op, ops |-> ops, callee |-> callee, lit |-> NoLit]
InstrLit(op, ops, lit) == [op |-> op, ops |-> ops, callee |-> 0, lit |-> lit]

\* Operands an instruction of function f may name: a constant or the result
\* of any instruction of f, before or after it in listed order.
Operands(f, n) == <<ConstV>> \o [j \in 1..n |-> InstV(f, j)]

\* The incoming values of a PHI, up to the order of the pair.
PhiOperands(f, n) ==
  UNION {{<<Operands(f, n)[i], Operands(f, n)[k]>> : k \in i..(n + 1)} :
           i \in 1..(n + 1)}

\* "OpNop" stands for any opcode that none of the cases of
\* transValueWithoutDecoration accepts.
InstChoices(f, n, nf) ==
  {Instr("OpPhi", ab, 0) : ab \in PhiOperands(f, n)}
    \cup {Instr("OpNot", <<Operands(f, n)[i]>>, 0) : i \in 1..(n + 1)}
    \cup {Instr("OpVariable", <<>>, 0), Instr("OpNop", <<>>, 0)}
    \cup {Instr("OpFunctionCall", <<>>, g) : g \in 1..nf}

\* params: the parameters, each with its type and name; ret: the return
\* type; modes: the execution modes of the entry point.  Types are indexes
\* into the types of the module; type 1 is OpTypeVoid.
SFunction(intrin, kernel, linkage, coff, insts, split) ==
  [intrin |-> intrin, kernel |-> kernel, linkage |-> linkage,
   contractionOff |-> coff, insts |-> insts, split |-> split,
   params |-> <<>>, ret |-> 1, modes |-> {},
   ocl |-> FALSE]     \* the name is the mangled name of an OpenCL builtin

\* attrs: the function parameter attributes of the parameter, in the order
\* foreachAttr visits them; volatile: whether it is decorated Volatile
SPRVFunctionParameter(ty, name) ==
  [ty |-> ty, name |-> name, attrs |-> <<>>, volatile |-> FALSE]

\* Functions with a body: instructions 1..split are in the first block, the
\* others in the second.
RichFunctions(f, nf) ==
  {SFunction(FALSE, FALSE, "Export", FALSE, insts, split) :
     insts \in [1..MaxInsts -> InstChoices(f, MaxInsts, nf)],
     split \in {1, MaxInsts}}

\* A function without a body, and a function that calls function g.
Declaration == SFunction(FALSE, FALSE, "Export", FALSE, <<>>, 0)
Caller(g) ==
  SFunction(FALSE, FALSE, "Export", FALSE,
            <<Instr("OpFunctionCall", <<>>, g)>>, 1)

\* Functions without a body, with every combination of the attributes that
\* transFunction and the metadata stages read.
Declarations ==
  {SFunction(intrin, kernel, linkage, coff, <<>>, 0) :
     intrin \in BOOLEAN, kernel \in BOOLEAN,
     linkage \in {"Export", "Internal"}, coff \in BOOLEAN}

\* builtin: the kind of the BuiltIn decoration of the variable ("" for
\* none); vec: whether the variable is a vector
SVariable(sc, builtin, vec) ==
  [sc |-> sc, linkage |-> "Internal", builtin |-> builtin, vec |-> vec]

SVariables ==
  {SVariable(sc, "", FALSE) :
     sc \in {"Function", "CrossWorkgroup", "UniformConstant", "Workgroup",
             "Generic"}}

AddressingModels == {"Physical32", "Physical64", "Logical", "Invalid"}

SModule(am, vs, fs) ==
  [am |-> am, vars |-> vs, funcs |-> fs, ver |-> 20,
   types |-> <<[op |-> "OpTypeVoid", elems |-> <<>>, width |-> 0,
                sc |-> "Function"]>>,
   flags |-> <<>>]        \* the compile flag, option by option

\* Modules whose first function has a body with every shape of operand use;
\* the other functions are all declarations, or each calls the first one.
BodyModules ==
  {SModule("Physical64", <<>>, <<r>> \o tail) :
     r \in RichFunctions(1, MaxFuncs),
     tail \in {[i \in 1..(MaxFuncs - 1) |-> Declaration],
               [i \in 1..(MaxFuncs - 1) |-> Caller(1)]}}

\* Modules of declarations.
DeclModules ==
  {SModule("Physical64", <<>>, fs) :
     fs \in UNION {[1..n -> Declarations] : n \in 0..MaxFuncs}}

\* Modules with every addressing model and module-scope variables.
AddrModules ==
  {SModule(am, vs, fs) :
     am \in AddressingModels,
     vs \in UNION {[1..n -> SVariables] : n \in 0..MaxVars},
     fs \in {<<>>, <<Declaration>>}}

\* The types of a module
SType(op, elems, width) ==
  [op |-> op, elems |-> elems, width |-> width, sc |-> "Function"]

\* OpTypePointer to element type e with storage class sc
SPointer(e, sc) ==
  [op |-> "OpTypePointer", elems |-> <<e>>, width |-> 0, sc |-> sc]

\* the storage classes that SPIRSPRVAddrSpaceMap has an entry for
StorageClasses ==
  {"Function", "CrossWorkgroup", "UniformConstant", "Workgroup", "Generic"}

\* The types the t-th type of a module may be; its element types come
\* before it, so the type graph is acyclic.  "OpTypeUnknown" stands for any
\* type opcode that transType has no case for.
TypeChoices(t) ==
  {SType("OpTypeInt", <<>>, 32), SType("OpTypeFloat", <<>>, 32),
   SType("OpTypeFloat", <<>>, 8), SType("OpTypeUnknown", <<>>, 0),
   SType("OpTypeStruct", <<>>, 0)}
    \cup {SPointer(e, sc) : e \in 1..(t - 1),
                            sc \in {"Function", "CrossWorkgroup"}}
    \cup {SType("OpTypeStruct", <<d, e>>, 0) :
            d \in 1..(t - 1), e \in 1..(t - 1)}
    \cup {SType("OpTypePipe", <<e>>, 0) : e \in 1..(t - 1)}

RECURSIVE TypeTables(_)
\* the type tables of n types
TypeTables(n) ==
  IF n = 0 THEN {<<>>}
  ELSE {Append(tt, ty) : tt \in TypeTables(n - 1), ty \in TypeChoices(n)}

TypeModules ==
  {[SModule("Physical64", <<>>, <<>>) EXCEPT !.types = tt] :
     tt \in TypeTables(MaxTypes)}

\* The types of the modules of KernelModules: void, a 32-bit integer and a
\* pointer to it in each storage class
KernelTypes ==
  <<SType("OpTypeVoid", <<>>, 0), SType("OpTypeInt", <<>>, 32),
    SPointer(2, "Function"), SPointer(2, "CrossWorkgroup"),
    SPointer(2, "UniformConstant"), SPointer(2, "Workgroup"),
    SPointer(2, "Generic")>>

\* The parameter lists of a kernel: every parameter of type int or pointer;
\* the first one may have no name.
KernelParams ==
  UNION {{[i \in 1..n |-> SPRVFunctionParameter(tys[i],
                             IF i = 1 THEN nm ELSE "b")] :
            tys \in [1..n -> 2..Len(KernelTypes)], nm \in {"", "a"}} :
         n \in 0..MaxParams}

\* Modules of one kernel with parameters, execution modes and a compile
\* flag.
KernelModules ==
  {[SModule("Physical32", <<>>,
            <<[SFunction(FALSE, TRUE, "Export", FALSE, <<>>, 0) EXCEPT
                 !.params = ps, !.modes = ms]>>)
      EXCEPT !.types = KernelTypes, !.flags = fl] :
     ps \in KernelParams,
     ms \in SUBSET {"LocalSize", "LocalSizeHint", "VecTypeHint"},
     fl \in {<<"-g">>, <<"-g", "-cl-kernel-arg-info">>}}

\* Modules that copy memory: one variable in the CrossWorkgroup or the
\* Workgroup storage class, and one function whose first instruction is an
\* OpVariable (a pointer in the Function storage class) or a copy within the
\* module-scope variable, and whose other instructions each copy between
\* the pointers there are.  The storage class Private has no pointer: no
\* entry of SPIRSPRVAddrSpaceMap lowers it.
MemPointers(first) ==
  IF first.op = "OpVariable" THEN {VarV(1), InstV(1, 1)} ELSE {VarV(1)}
PointerStorageClass(vs, P) == IF P[1] = "var" THEN vs[P[3]].sc ELSE "Function"
SPRVCopyMemorySized(vs, Target, Source, width, vol) ==
  InstrLit("OpCopyMemorySized", <<Target, Source, ConstV>>,
           [NoLit EXCEPT !.trg = PointerStorageClass(vs, Target),
                         !.src = PointerStorageClass(vs, Source),
                         !.width = width, !.align = 4, !.volatile = vol])
MemCopies(vs, Ps) ==
  {SPRVCopyMemorySized(vs, t, s, w, vol) :
     t \in Ps, s \in Ps, w \in {32, 64}, vol \in {0, 1}}
MemBodies(vs) ==
  UNION {{<<first>> \o rest :
            rest \in [1..(MaxInsts - 1) -> MemCopies(vs, MemPointers(first))]} :
           first \in {Instr("OpVariable", <<>>, 0)}
                       \cup MemCopies(vs, {VarV(1)})}
MemModules ==
  UNION {{SModule("Physical64", vs,
                  <<SFunction(FALSE, FALSE, "Export", FALSE, insts,
                              MaxInsts)>>) :
            insts \in MemBodies(vs)} :
           vs \in {<<SVariable(sc, "", FALSE)>> :
                     sc \in {"CrossWorkgroup", "Workgroup"}}}

\* Modules that read a builtin variable: a scalar one (WorkDim) or a
\* vector one (GlobalInvocationId), and one function of one block whose
\* instructions load the variable, extract a component of a load of the
\* vector variable at a constant or a computed index, or use a scalar
\* result.  An operand is the result of an instruction before it.
\* "OpBuiltin" stands for any opcode of SPIRSPRVBuiltinInstMap that is not a
\* comparison: an instruction translated to a call of an OpenCL builtin.
BuiltinVariables ==
  {SVariable("UniformConstant", "WorkDim", FALSE),
   SVariable("UniformConstant", "GlobalInvocationId", TRUE)}
IsScalarResult(var, I) ==
  I.op \in {"OpNot", "OpCompositeExtract", "OpVectorExtractDynamic",
            "OpBuiltin"}
    \/ (I.op = "OpLoad" /\ ~var.vec)
ScalarOperands(var, b) ==
  {ConstV} \cup {InstV(1, k) : k \in {i \in DOMAIN b : IsScalarResult(var, b[i])}}
VectorOperands(var, b) ==
  {InstV(1, k) : k \in {i \in DOMAIN b : b[i].op = "OpLoad" /\ var.vec}}
BuiltinInstChoices(var, b) ==
  {Instr("OpLoad", <<VarV(1)>>, 0)}
    \cup {Instr("OpNot", <<x>>, 0) : x \in ScalarOperands(var, b)}
    \cup {Instr("OpBuiltin", <<x>>, 0) : x \in ScalarOperands(var, b)}
    \cup {InstrLit("OpCompositeExtract", <<v>>, [NoLit EXCEPT !.index = i]) :
            v \in VectorOperands(var, b), i \in {0, 1}}
    \cup {Instr("OpVectorExtractDynamic", <<v, x>>, 0) :
            v \in VectorOperands(var, b), x \in ScalarOperands(var, b)}
RECURSIVE BuiltinBodies(_, _)
BuiltinBodies(var, n) ==
  IF n = 0 THEN {<<>>}
  ELSE UNION {{Append(b, I) : I \in BuiltinInstChoices(var, b)} :
                b \in BuiltinBodies(var, n - 1)}
BuiltinModules ==
  UNION {{SModule("Physical64", <<var>>,
                  <<SFunction(FALSE, FALSE, "Export", FALSE, insts,
                              MaxInsts + 1)>>) :
            insts \in BuiltinBodies(var, MaxInsts + 1)} :
           var \in BuiltinVariables}

\* Modules that call a declared function and use the result.  The types
\* are void, a 32-bit integer and a struct of one integer; the variable is
\* where the results are stored.  Function 2 is a declaration with one
\* integer parameter that returns the struct or the integer, and whose name
\* is that of an OpenCL builtin or not.  Function 1 has one block, made of
\* call sites of function 2: a call and then, for the kind of the site, a
\* store of its result, nothing, another user of its result, or another
\* user and then a store.
CallSiteKinds == {"stored", "unused", "used", "used and stored"}
StructTypes ==
  <<[op |-> "OpTypeVoid", elems |-> <<>>, width |-> 0, sc |-> "Function"],
    SType("OpTypeInt", <<>>, 32), SType("OpTypeStruct", <<2>>, 0)>>
CallSite(kind, n) ==
  <<Instr("OpFunctionCall", <<ConstV>>, 2)>>
    \o (IF kind \in {"used", "used and stored"}
        THEN <<Instr("OpNot", <<InstV(1, n + 1)>>, 0)>> ELSE <<>>)
    \o (IF kind \in {"stored", "used and stored"}
        THEN <<Instr("OpStore", <<InstV(1, n + 1), VarV(1)>>, 0)>> ELSE <<>>)
RECURSIVE CallSites(_, _, _)
CallSites(kinds, i, insts) ==
  IF i > Len(kinds) THEN insts
  ELSE CallSites(kinds, i + 1, insts \o CallSite(kinds[i], Len(insts)))
CallSiteBodies ==
  UNION {{CallSites(kinds, 1, <<>>) : kinds \in [1..n -> CallSiteKinds]} :
           n \in 0..MaxInsts}
CallSiteModules ==
  {[SModule("Physical64", <<SVariable("CrossWorkgroup", "", FALSE)>>,
            <<SFunction(FALSE, FALSE, "Export", FALSE, insts, Len(insts)),
              [SFunction(FALSE, FALSE, "Export", FALSE, <<>>, 0) EXCEPT
                 !.params = <<SPRVFunctionParameter(2, "")>>,
                 !.ret = r, !.ocl = ocl]>>)
      EXCEPT !.types = StructTypes] :
     insts \in CallSiteBodies, r \in {2, 3}, ocl \in BOOLEAN}

\* Modules that convert: one function of one block whose instructions each
\* convert a constant or the result of an instruction before it, with or
\* without an FP rounding mode, saturated or not.
SPRVUnary(op, ty, ext, x, rounding, sat) ==
  InstrLit(op, <<x>>, [NoLit EXCEPT !.ty = ty, !.ext = ext,
                                    !.rounding = rounding, !.sat = sat])
ConvertChoices(n) ==
  {SPRVUnary(c[1], c[2], c[3], x, rounding, sat) :
     c \in {<<"OpConvertFToU", "int", FALSE>>,
             <<"OpConvertUToF", "float", FALSE>>,
             <<"OpSConvert", "int", TRUE>>, <<"OpSConvert", "int", FALSE>>,
             <<"OpUConvert", "int", TRUE>>},
     x \in {ConstV} \cup {InstV(1, k) : k \in 1..(n - 1)},
     rounding \in {"", "rtz"}, sat \in BOOLEAN}
RECURSIVE ConvertBodies(_)
ConvertBodies(n) ==
  IF n = 0 THEN {<<>>}
  ELSE {Append(b, I) : b \in ConvertBodies(n - 1), I \in ConvertChoices(n)}
ConvertModules ==
  {SModule("Physical64", <<>>,
           <<SFunction(FALSE, FALSE, "Export", FALSE, insts, MaxInsts)>>) :
     insts \in ConvertBodies(MaxInsts)}

\* Modules of one function, a kernel or not, whose last parameter has a
\* name or not, is decorated Volatile or not and has up to two function
\* parameter attributes; it may come after a parameter that has none.
ParamAttrs ==
  {<<>>} \cup {<<a>> : a \in {"Zext", "NoAlias", "Const"}}
    \cup {ab \in {"Zext", "NoAlias", "Const"} \X {"Zext", "NoAlias", "Const"} :
            ab[1] # ab[2]}
ParamModules ==
  {[SModule("Physical32", <<>>,
            <<[SFunction(FALSE, kernel, "Export", FALSE, <<>>, 0) EXCEPT
                 !.params = before \o
                   <<[SPRVFunctionParameter(ty, nm) EXCEPT
                        !.attrs = attrs, !.volatile = vol]>>]>>)
      EXCEPT !.types = KernelTypes, !.flags = <<"-g">>] :
     kernel \in BOOLEAN, before \in {<<>>, <<SPRVFunctionParameter(2, "b")>>},
     ty \in {2, 4}, nm \in {"", "a"}, attrs \in ParamAttrs, vol \in BOOLEAN}

\* Modules that shift: one function of one block whose instructions each
\* shift, or combine bitwise, a constant or the result of any instruction
\* of the function, before or after it, by a constant or by itself.
ShiftChoices ==
  {Instr(op, <<x, y>>, 0) :
     op \in {"OpShiftRightArithmetic", "OpShiftRightLogical",
              "OpShiftLeftLogical", "OpBitwiseOr"},
     x \in {ConstV} \cup {InstV(1, k) : k \in 1..MaxInsts},
     y \in {ConstV}}
  \cup
  {Instr(op, <<x, x>>, 0) :
     op \in {"OpShiftRightArithmetic", "OpShiftRightLogical",
              "OpShiftLeftLogical", "OpBitwiseOr"},
     x \in {InstV(1, k) : k \in 1..MaxInsts}}
ShiftModules ==
  {SModule("Physical64", <<>>,
           <<SFunction(FALSE, FALSE, "Export", FALSE, insts, MaxInsts)>>) :
     insts \in [1..MaxInsts -> ShiftChoices]}

\* Modules that branch: function 1 has two blocks, the first of one
\* instruction, a branch to the second block, which is created after it;
\* its other instructions branch to either block, use a constant or call
\* function 2, which has two blocks that branch to each other.
SPRVBranch(f, b) == Instr("OpBranch", <<LabelV(f, b)>>, 0)
BranchChoices ==
  {SPRVBranch(1, 1), SPRVBranch(1, 2), Instr("OpNot", <<ConstV>>, 0),
   Instr("OpFunctionCall", <<>>, 2)}
BranchModules ==
  {SModule("Physical64", <<>>,
           <<SFunction(FALSE, FALSE, "Export", FALSE,
                       <<SPRVBranch(1, 2)>> \o rest, 1),
             SFunction(FALSE, FALSE, "Export", FALSE,
                       <<SPRVBranch(2, 2), SPRVBranch(2, 1)>>, 1)>>) :
     rest \in [1..MaxInsts -> BranchChoices]}

NumFuncs == Len(BM.funcs)
NumInsts(f) == Len(BM.funcs[f].insts)
\* BF->getNumBasicBlock()
NumBasicBlock(f) ==
  IF NumInsts(f) = 0 THEN 0
  ELSE IF BM.funcs[f].split < NumInsts(f) THEN 2 ELSE 1
BlockOf(f, j) == IF j <= BM.funcs[f].split THEN 1 ELSE 2

OpCodeOf(BV) ==
  CASE BV[1] = "const" -> "OpConstant"
    [] BV[1] = "label" -> "OpLabel"
    [] BV[1] = "func" -> "OpFunction"
    [] BV[1] = "var" -> "OpVariable"
    [] BV[1] = "arg" -> "OpFunctionParameter"
    [] OTHER -> BM.funcs[BV[2]].insts[BV[3]].op

\* ------------------------------------------------------------------------
\* The IR under construction.  An engine state st bundles the maps and the
\* module while one handler runs: VM = ValueMap, PM = PlaceholderMap,
\* FM = FuncMap, M = the module, made = the objects created, v = the value
\* the last call returned, abort = the message of the assertion that failed.
\* ------------------------------------------------------------------------
EmptyModule ==
  [TargetTriple |-> "", DataLayout |-> "",
   Globals |-> <<>>,       \* the module's global variable list
   Functions |-> <<>>,     \* the module's function list
   Func |-> EmptyMap,      \* function handle -> its properties
   Blocks |-> EmptyMap,    \* basic block handle -> its instruction list
   Insts |-> EmptyMap,     \* instruction handle -> opcode, operands, parent
   NamedMD |-> EmptyMap]   \* named metadata -> its operand list

Returning(st, v) == [st EXCEPT !.v = v]

\* operator new: a fresh object of kind k made for SPIR-V value BV
NewH(st, k, BV) == Handle(k, BV, Get0(st.made, <<k, BV>>) + 1)
Counted(st, k, BV) ==
  [st EXCEPT !.made = Put(@, <<k, BV>>, Get0(@, <<k, BV>>) + 1)]

\* an instruction created with insert-at-end BB
InsertInst(st, h, opc, ops, BB) ==
  [st EXCEPT !.M.Insts = Put(@, h, [opc |-> opc, ops |-> ops, parent |-> BB,
                                    exact |-> FALSE]),
             !.M.Blocks[BB] = Append(@, h)]

Range(q) == {q[i] : i \in DOMAIN q}

\* the instructions of Mod that have X among their operands
Users(Mod, X) ==
  {h \in DOMAIN Mod.Insts : \E i \in DOMAIN Mod.Insts[h].ops :
                               Mod.Insts[h].ops[i] = X}

\* instruction I is in a block of the module
Attached(Mod, I) == \E b \in DOMAIN Mod.Blocks : I \in Range(Mod.Blocks[b])

\* an instruction created with insert-before I
InsertBefore(st, h, opc, ops, I) ==
  LET BB == st.M.Insts[I].parent
      k == CHOOSE i \in DOMAIN st.M.Blocks[BB] : st.M.Blocks[BB][i] = I
  IN  [st EXCEPT
         !.M.Insts = Put(@, h, [opc |-> opc, ops |-> ops, parent |-> BB,
                                exact |-> FALSE]),
         !.M.Blocks[BB] = SubSeq(@, 1, k - 1) \o <<h>> \o SubSeq(@, k, Len(@))]

\* Fault seeded in isFuncNoUnwind: it returns false.
IsFuncNoUnwindFalse == FALSE

\* bool isFuncNoUnwind() const { return true;}
IsFuncNoUnwind == TRUE

\* if (isFuncNoUnwind()) F->addFnAttr(Attribute::NoUnwind): the attributes
\* of F after it
AddNoUnwind(attrs) == IF IsFuncNoUnwind THEN attrs \cup {"NoUnwind"} ELSE attrs

\* Module::getFunction: the function of the module with that name, or NULL
GetFunction(Mod, nm) ==
  IF \E i \in DOMAIN Mod.Functions : Mod.Func[Mod.Functions[i]].name = nm
  THEN Mod.Functions[CHOOSE i \in DOMAIN Mod.Functions :
                       Mod.Func[Mod.Functions[i]].name = nm]
  ELSE NULL

\* the name the symbol table of the module gives to a new function asked
\* to be called nm: nm if no function has it, else nm with a number after
\* it that makes it new
UniqueName(Mod, nm) ==
  IF GetFunction(Mod, nm) = NULL THEN nm
  ELSE [nm EXCEPT !.suffix =
          Append(@, ToString(Cardinality(
            {i \in DOMAIN Mod.Functions :
               /\ Mod.Func[Mod.Functions[i]].name.prefix = nm.prefix
               /\ Mod.Func[Mod.Functions[i]].name.base = nm.base})))]

\* Function::Create(FT, Linkage, Name, M) for the function object h, with
\* the default calling convention and no attribute
FunctionCreate(st, h, RetTy, ParamTys, Linkage, nm) ==
  [st EXCEPT
     !.M.Functions = Append(@, h),
     !.M.Func = Put(@, h, [name |-> UniqueName(st.M, nm), linkage |-> Linkage,
                           cc |-> "C", attrs |-> {}, blocks |-> <<>>,
                           ret |-> RetTy, params |-> ParamTys,
                           argnames |-> [i \in DOMAIN ParamTys |-> ""],
                           argattrs |-> [i \in DOMAIN ParamTys |-> {}]])]

\* Value::replaceAllUsesWith
ReplaceAllUsesWith(Insts, Old, New) ==
  [h \in DOMAIN Insts |->
     [Insts[h] EXCEPT !.ops = [i \in DOMAIN @ |-> IF @[i] = Old THEN New
                                                   ELSE @[i]]]]

\* dropAllReferences and removeFromParent of an instruction
DetachInst(Mod, I) ==
  [Mod EXCEPT !.Insts[I] = [@ EXCEPT !.ops = [i \in DOMAIN @ |-> NULL],
                                     !.parent = NULL],
              !.Blocks = [b \in DOMAIN @ |->
                            SelectSeq(@[b], LAMBDA x : x # I)]]

\* removeFromParent of a global variable
DetachGlobal(Mod, GV) ==
  [Mod EXCEPT !.Globals = SelectSeq(@, LAMBDA g : g.h # GV)]

IsGlobalNamed(Mod, P, prefix) ==
  \E i \in DOMAIN Mod.Globals :
     Mod.Globals[i].h = P /\ Mod.Globals[i].name.prefix = prefix

\* the condition asserted by mapValue: X is a load whose pointer operand is
\* a global variable whose name starts with kPlaceholderPrefix
IsPlaceholderLoad(Mod, X) ==
  /\ X \in DOMAIN Mod.Insts
  /\ Mod.Insts[X].opc = "load"
  /\ IsGlobalNamed(Mod, Mod.Insts[X].ops[1], kPlaceholderPrefix)

\* Fault seeded in mapValue: the uses of the placeholder load are left as
\* they are (no replaceAllUsesWith).
MapValueKeepsUses(st, BV, V) ==
  IF BV \in DOMAIN st.VM
  THEN IF st.VM[BV] = V THEN Returning(st, V)
       ELSE LET LD == st.VM[BV] IN
            IF ~IsPlaceholderLoad(st.M, LD)
            THEN [st EXCEPT !.abort = kTranslatedTwice]
            ELSE LET Placeholder == st.M.Insts[LD].ops[1]
                     M2 == DetachGlobal(DetachInst(st.M, LD), Placeholder)
                 IN  [st EXCEPT !.M = M2, !.VM = Put(@, BV, V), !.v = V]
  ELSE [st EXCEPT !.VM = Put(@, BV, V), !.v = V]

MapValue(st, BV, V) ==
  IF BV \in DOMAIN st.VM
  THEN IF st.VM[BV] = V THEN Returning(st, V)
       ELSE LET LD == st.VM[BV] IN
            IF ~IsPlaceholderLoad(st.M, LD)
            THEN [st EXCEPT !.abort = kTranslatedTwice]
            ELSE LET Placeholder == st.M.Insts[LD].ops[1]
                     M1 == [st.M EXCEPT
                              !.Insts = ReplaceAllUsesWith(@, LD, V)]
                     M2 == DetachGlobal(DetachInst(M1, LD), Placeholder)
                 IN  [st EXCEPT !.M = M2, !.VM = Put(@, BV, V), !.v = V]
  ELSE [st EXCEPT !.VM = Put(@, BV, V), !.v = V]

MapFunction(st, BF, F) == [st EXCEPT !.FM = Put(@, BF, F)]

\* Fault seeded in SPIRSPRVAddrSpaceMap: Workgroup and Generic are swapped.
AddrSpaceRmapSwapped(sc) ==
  CASE sc = "Function" -> 0
    [] sc = "CrossWorkgroup" -> 1
    [] sc = "UniformConstant" -> 2
    [] sc = "Workgroup" -> 4
    [] sc = "Generic" -> 3

\* SPIRSPRVAddrSpaceMap::rmap
AddrSpaceRmap(sc) ==
  CASE sc = "Function" -> 0
    [] sc = "CrossWorkgroup" -> 1
    [] sc = "UniformConstant" -> 2
    [] sc = "Workgroup" -> 3
    [] sc = "Generic" -> 4

\* SPIRSPRVLinkageTypeMap::rmap; the table of the map is kept symbolic
LinkageRmap(lt) ==
  CASE lt = "Export" -> "rmap(Export)"
    [] lt = "Import" -> "rmap(Import)"
    [] lt = "Internal" -> "rmap(Internal)"

\* Fault seeded in transValue: a value with a PlaceholderMap entry is never
\* returned from ValueMap, whatever CreatePlaceHolder is.
TransValueHitNoFlag(st, BV, CreatePlaceHolder) ==
  BV \in DOMAIN st.VM /\ BV \notin DOMAIN st.PM

\* Fault seeded in transValue: the flag is read the other way round, a value
\* with a PlaceholderMap entry is returned from ValueMap only when no
\* placeholder is asked for.
TransValueHitWhenFinal(st, BV, CreatePlaceHolder) ==
  BV \in DOMAIN st.VM /\ (BV \notin DOMAIN st.PM \/ ~CreatePlaceHolder)

\* the early return of transValue
TransValueHit(st, BV, CreatePlaceHolder) ==
  BV \in DOMAIN st.VM /\ (BV \notin DOMAIN st.PM \/ CreatePlaceHolder)

\* "Creation of place holder" in transValueWithoutDecoration
CreatePlaceholder(st, BV, BB) ==
  LET GV == NewH(st, "gv", BV)
      LD == NewH(st, "ld", BV)
      s1 == Counted(Counted(st, "gv", BV), "ld", BV)
      s2 == [s1 EXCEPT !.M.Globals =
               Append(@, [h |-> GV, name |-> Name(kPlaceholderPrefix, BV),
                          linkage |-> "PrivateLinkage", as |-> 0,
                          vec |-> FALSE])]
      s3 == InsertInst(s2, LD, "load", <<GV>>, BB)
      s4 == [s3 EXCEPT !.PM = Put(@, BV, LD)]
  IN  MapValue(s4, BV, LD)

\* a new instruction for BV appended to BB once its operands are
\* translated: st is the engine after the translation of the operands and
\* st.v their vector; Pre and Post are the operands that are not translated
\* values.  A failed translation of an operand goes through.
CreateInst(st, BV, opc, Pre, Post, BB) ==
  IF st.abort # "" THEN st
  ELSE Returning(InsertInst(Counted(st, "inst", BV), NewH(st, "inst", BV),
                            opc, Pre \o st.v \o Post, BB),
                 NewH(st, "inst", BV))

\* return mapValue(BV, V) where V is the value st returned
MapResult(st, BV) == IF st.abort # "" THEN st ELSE MapValue(st, BV, st.v)

\* return mapValue(BV, new ...Inst(operands..., BB))
EmitInst(st, BV, opc, Pre, Post, BB) ==
  MapResult(CreateInst(st, BV, opc, Pre, Post, BB), BV)

\* the vector of one value
Single(st) == IF st.abort # "" THEN st ELSE Returning(st, <<st.v>>)

\* Phi->addIncoming(V, ...) where V is the value st returned
AddPhiOperand(st, LPhi) ==
  [st EXCEPT !.M.Insts[LPhi].ops = Append(@, st.v)]

RECURSIVE TransValue(_, _, _, _)
RECURSIVE AddIncoming(_, _, _, _, _)
RECURSIVE TransValues(_, _, _, _, _)
RECURSIVE TransValuesFrom(_, _, _, _, _)

\* transValue of a vector of values, each with the default
\* CreatePlaceHolder = true; returns the vector of the results
TransValues(st, BV, i, BB, V) ==
  IF i > Len(BV) \/ st.abort # "" THEN Returning(st, V)
  ELSE TransValuesFrom(TransValue(st, BV[i], BB, TRUE), BV, i, BB, V)

\* the rest of the vector once st translated its element i
TransValuesFrom(st, BV, i, BB, V) ==
  TransValues(st, BV, i + 1, BB, Append(V, st.v))

\* the suffix the OpCopyMemorySized case adds to the name for a pointer of
\* storage class sc
MemCpyPointerSuffix(sc) == IF sc = "Private" THEN ".p0i8" ELSE ".p1i8"

\* Phi->foreachPair of the OpPhi case: translate each incoming value with
\* the default CreatePlaceHolder = true and add it to the PHI node
AddIncoming(st, LPhi, ops, i, BB) ==
  IF i > Len(ops) \/ st.abort # "" THEN Returning(st, LPhi)
  ELSE AddIncoming(AddPhiOperand(TransValue(st, ops[i], BB, TRUE), LPhi),
                   LPhi, ops, i + 1, BB)

\* the element type of a builtin variable and the type of the other
\* scalar values, which the model keeps whole
ScalarTy == [k |-> "scalar"]

\* isCvtOpCode and the opcodes whose operand, and whose result, is unsigned
IsCvtOpCode(OC) ==
  OC \in {"OpConvertFToU", "OpConvertFToS", "OpConvertSToF", "OpConvertUToF",
          "OpUConvert", "OpSConvert", "OpFConvert", "OpSatConvertSToU",
          "OpSatConvertUToS"}
IsCvtFromUnsignedOpCode(OC) ==
  OC \in {"OpConvertUToF", "OpUConvert", "OpSatConvertUToS"}
IsCvtToUnsignedOpCode(OC) ==
  OC \in {"OpConvertFToU", "OpUConvert", "OpSatConvertSToU"}

\* mapSPRVTypeToOpenCLType: Ty is the name of the type taken as signed
MapSPRVTypeToOpenCLType(Ty, Signed) ==
  IF Ty = "int" /\ ~Signed THEN "uint" ELSE Ty

\* Fault seeded in getOCLConvertBuiltinName: the rounding mode is appended
\* before _sat.
GetOCLConvertBuiltinNameRoundingFirst(BI) ==
  (IF IsCvtFromUnsignedOpCode(BI.op) THEN "u" ELSE "")
    \o "convert_"
    \o MapSPRVTypeToOpenCLType(BI.lit.ty, ~IsCvtToUnsignedOpCode(BI.op))
    \o (IF BI.lit.rounding # "" THEN "_" \o BI.lit.rounding ELSE "")
    \o (IF BI.lit.sat THEN "_sat" ELSE "")

\* getOCLConvertBuiltinName
GetOCLConvertBuiltinName(BI) ==
  (IF IsCvtFromUnsignedOpCode(BI.op) THEN "u" ELSE "")
    \o "convert_"
    \o MapSPRVTypeToOpenCLType(BI.lit.ty, ~IsCvtToUnsignedOpCode(BI.op))
    \o (IF BI.lit.sat THEN "_sat" ELSE "")
    \o (IF BI.lit.rounding # "" THEN "_" \o BI.lit.rounding ELSE "")

\* getOCLBuiltinName; "OpBuiltin" is SPIRSPRVBuiltinInstMap::rmap(OC)
GetOCLBuiltinName(BI) ==
  IF IsCvtOpCode(BI.op) THEN GetOCLConvertBuiltinName(BI) ELSE "OpBuiltin"

\* the cast transConvertInst chooses
CastOps(BI) ==
  CASE BI.op = "OpSConvert" -> IF BI.lit.ext THEN "sext" ELSE "trunc"
    [] BI.op = "OpUConvert" -> IF BI.lit.ext THEN "zext" ELSE "trunc"
    [] BI.op = "OpFConvert" -> IF BI.lit.ext THEN "fpext" ELSE "fptrunc"
    [] BI.op = "OpConvertFToU" -> "fptoui"
    [] BI.op = "OpConvertFToS" -> "fptosi"
    [] BI.op = "OpConvertSToF" -> "sitofp"
    [] BI.op = "OpConvertUToF" -> "uitofp"
    [] OTHER -> "bitcast"

\* transOCLBuiltinFromInst(getOCLBuiltinName(BI), BI, BB): the mangled name
\* is kept symbolic, it tells that the builtin is that of an instruction and
\* the number of its parameters
TransOCLBuiltinFromInst(st, BV, BB) ==
  LET BI == BM.funcs[BV[2]].insts[BV[3]]
      ArgTys == [i \in DOMAIN BI.ops |-> ScalarTy]
      MangledName == Name("_Z", <<GetOCLBuiltinName(BI), Len(ArgTys), 0>>)
      Found == GetFunction(st.M, MangledName)
      Create == Found = NULL \/ st.M.Func[Found].ret # ScalarTy
                              \/ st.M.Func[Found].params # ArgTys
      Func == IF Create THEN NewH(st, "builtin", MangledName.base) ELSE Found
      s1 == IF ~Create THEN st
            ELSE [FunctionCreate(Counted(st, "builtin", MangledName.base),
                                 Func, ScalarTy, ArgTys, "ExternalLinkage",
                                 MangledName)
                    EXCEPT !.M.Func[Func].cc = "SPIR_FUNC",
                           !.M.Func[Func].attrs = AddNoUnwind(@)]
  IN  \* CallInst::Create(Func, transValue(BI->getOperands(), ...), "", BB)
      CreateInst(TransValues(s1, BI.ops, 1, BB, <<>>), BV, "call",
                 <<Func>>, <<>>, BB)

\* isBinaryShiftLogicalBitwiseOpCode
IsBinaryShiftLogicalBitwiseOpCode(OC) ==
  OC \in {"OpShiftRightArithmetic", "OpShiftRightLogical",
          "OpShiftLeftLogical", "OpBitwiseOr", "OpBitwiseAnd",
          "OpBitwiseXor", "OpLogicalOr", "OpLogicalAnd", "OpLogicalXor"}

\* the binary operator transShiftLogicalBitwiseInst chooses
BinaryOps(OC) ==
  CASE OC \in {"OpBitwiseOr", "OpLogicalOr"} -> "or"
    [] OC \in {"OpBitwiseAnd", "OpLogicalAnd"} -> "and"
    [] OC \in {"OpBitwiseXor", "OpLogicalXor"} -> "xor"
    [] OC = "OpShiftLeftLogical" -> "shl"           \* OpCodeMap::rmap
    [] OC = "OpShiftRightLogical" -> "lshr"
    [] OC = "OpShiftRightArithmetic" -> "ashr"

\* transConvertInst with a block: CastInst::Create(CO, Src, Dst, ..., BB)
TransConvertInst(st, BV, BB) ==
  CreateInst(Single(TransValue(st, BM.funcs[BV[2]].insts[BV[3]].ops[1], BB,
                               TRUE)),
             BV, CastOps(BM.funcs[BV[2]].insts[BV[3]]), <<>>, <<>>, BB)

\* "Translation of instructions" in transValueWithoutDecoration, the
\* opcodes other than OpFunctionCall
TransInstruction(st, BV, BB) ==
  LET I == BM.funcs[BV[2]].insts[BV[3]] IN
  CASE I.op = "OpPhi" ->
         LET LPhi == NewH(st, "inst", BV)
             s1 == InsertInst(Counted(st, "inst", BV), LPhi, "phi", <<>>, BB)
         IN  AddIncoming(MapValue(s1, BV, LPhi), LPhi, I.ops, 1, BB)
    [] I.op = "OpNot" ->
         EmitInst(Single(TransValue(st, I.ops[1], BB, TRUE)), BV, "not",
                  <<>>, <<>>, BB)
    [] I.op = "OpStore" ->
         \* new StoreInst(transValue(src), transValue(dst), ..., BB)
         EmitInst(TransValues(st, I.ops, 1, BB, <<>>), BV, "store",
                  <<>>, <<>>, BB)
    [] I.op = "OpLoad" ->
         EmitInst(Single(TransValue(st, I.ops[1], BB, TRUE)), BV, "load",
                  <<>>, <<>>, BB)
    [] I.op = "OpCompositeExtract" ->
         \* ExtractElementInst::Create(transValue(composite),
         \*   ConstantInt::get(*Context, APInt(32, indices[0])), ..., BB)
         EmitInst(Single(TransValue(st, I.ops[1], BB, TRUE)), BV,
                  "extractelement", <<>>,
                  <<ConstantInt("i32", I.lit.index)>>, BB)
    [] I.op = "OpVectorExtractDynamic" ->
         \* ExtractElementInst::Create(transValue(vector), transValue(index),
         \*   ..., BB)
         EmitInst(TransValues(st, I.ops, 1, BB, <<>>), BV,
                  "extractelement", <<>>, <<>>, BB)
    [] I.op = "OpBuiltin" ->
         \* SPIRSPRVBuiltinInstMap::rfind(BV->getOpCode(), nullptr)
         MapResult(TransOCLBuiltinFromInst(st, BV, BB), BV)
    [] IsBinaryShiftLogicalBitwiseOpCode(I.op) ->
         \* transShiftLogicalBitwiseInst: BinaryOperator::Create(BO,
         \*   transValue(getOperand(0), F, BB),
         \*   transValue(getOperand(1), F, BB), ..., BB)
         EmitInst(TransValues(st, I.ops, 1, BB, <<>>), BV, BinaryOps(I.op),
                  <<>>, <<>>, BB)
    [] I.op = "OpBranch" ->
         \* BranchInst::Create(dyn_cast<BasicBlock>(
         \*   transValue(BR->getTargetLabel(), F, BB)), BB)
         EmitInst(TransValues(st, I.ops, 1, BB, <<>>), BV, "br", <<>>, <<>>,
                  BB)
    [] IsCvtOpCode(I.op) ->
         \* if (BI->hasFPRoundingMode() || BI->isSaturatedConversion())
         \*   Inst = transOCLBuiltinFromInst(BI, BB);
         \* else Inst = transConvertInst(BV, F, BB);
         \* return mapValue(BV, Inst);
         IF I.lit.rounding # "" \/ I.lit.sat
         THEN MapResult(TransOCLBuiltinFromInst(st, BV, BB), BV)
         ELSE MapResult(TransConvertInst(st, BV, BB), BV)
    [] I.op = "OpCopyMemorySized" ->
         \* I.ops = <<target, source, size>>; I.lit = the storage classes
         \* of the pointer types of target and source, the width of the
         \* type of size, the alignment and the volatile flag
         LET FuncName == [Name("llvm.", <<"memcpy", 0, 0>>) EXCEPT !.suffix =
                            <<MemCpyPointerSuffix(I.lit.trg),
                              MemCpyPointerSuffix(I.lit.src),
                              IF I.lit.width = 32 THEN ".i32" ELSE ".i64">>]
             Func == NewH(st, "memcpy", BV)
             s1 == FunctionCreate(Counted(st, "memcpy", BV), Func, VoidTy,
                                  <<>>, "ExternalLinkage", FuncName)
             \* if (isFuncNoUnwind()) Func->addFnAttr(Attribute::NoUnwind)
             s2 == [s1 EXCEPT !.M.Func[Func].attrs = AddNoUnwind(@)]
         IN  EmitInst(TransValues(s2, I.ops, 1, BB, <<>>), BV, "call",
                      <<Func>>,
                      <<ConstantInt("i32", I.lit.align),
                        ConstantInt("i1", I.lit.volatile)>>, BB)
    [] OTHER ->
         \* assert(0 && "Translation of SPIRV instruction not implemented");
         \* return NULL;
         IF NDEBUG THEN Returning(st, NULL)
         ELSE [st EXCEPT !.abort = kNotImplemented]

\* the OpFunctionCall case once transFunction(BC->getFunction()) returned F
EmitCall(st, BV, BB, F) ==
  \* CallInst::Create(F, transValue(BC->getArgumentValues(), F, BB), ...)
  EmitInst(TransValues(st, BM.funcs[BV[2]].insts[BV[3]].ops, 1, BB, <<>>),
           BV, "call", <<F>>, <<>>, BB)

TransValueWithoutDecoration(st, BV, BB, CreatePlaceHolder) ==
  LET OC == OpCodeOf(BV) IN
  CASE OC = "OpConstant" -> MapValue(st, BV, Handle("const", BV, 0))
    [] OC = "OpVariable" /\ BV[1] = "inst" ->
         \* BS == SPRVSC_Function: new AllocaInst(Ty, BV->getName(), BB)
         LET V == NewH(st, "inst", BV)
             s1 == InsertInst(Counted(st, "inst", BV), V, "alloca", <<>>, BB)
         IN  MapValue(s1, BV, V)
    [] OC = "OpVariable" /\ BV[1] = "var" ->
         LET BVar == BM.vars[BV[3]]
             LVar == NewH(st, "global", BV)
             s1 == [Counted(st, "global", BV) EXCEPT !.M.Globals =
                      Append(@, [h |-> LVar, name |-> Name("", BV),
                                 linkage |-> LinkageRmap(BVar.linkage),
                                 as |-> AddrSpaceRmap(BVar.sc),
                                 vec |-> BVar.vec])]
             \* if (BVar->isBuiltin(&BVKind)) BuiltinGVMap[LVar] = BVKind;
             s2 == IF BVar.builtin # ""
                   THEN [s1 EXCEPT !.BGV = Put(@, LVar, BVar.builtin)]
                   ELSE s1
         IN  MapValue(s2, BV, LVar)
    [] OC = "OpLabel" ->
         \* BasicBlock::Create(*Context, BV->getName(), F)
         LET B == NewH(st, "bb", BV)
             F == st.FM[FuncV(BV[2])]
             s1 == [Counted(st, "bb", BV) EXCEPT
                      !.M.Blocks = Put(@, B, <<>>),
                      !.M.Func[F].blocks = Append(@, B)]
         IN  MapValue(s1, BV, B)
    [] OTHER ->
         IF CreatePlaceHolder THEN CreatePlaceholder(st, BV, BB)
         ELSE TransInstruction(st, BV, BB)

\* transFlags(V) where V is the value st returned, when it is not null
TransFlags(st) ==
  IF st.abort # "" \/ st.v \notin DOMAIN st.M.Insts THEN st
  ELSE IF st.M.Insts[st.v].opc \in {"ashr", "lshr"}
  THEN [st EXCEPT !.M.Insts[st.v].exact = TRUE]
  ELSE st

TransValue(st, BV, BB, CreatePlaceHolder) ==
  IF TransValueHit(st, BV, CreatePlaceHolder) THEN Returning(st, st.VM[BV])
  ELSE TransFlags(TransValueWithoutDecoration(st, BV, BB, CreatePlaceHolder))

\* ------------------------------------------------------------------------
\* The type lowering: SPRVToLLVM::transType
\* ------------------------------------------------------------------------
TypeEngine == [TM |-> TypeMap, made |-> made, abort |-> "", v |-> NullTy]

MapType(st, BT, T) == [st EXCEPT !.TM = Put(@, BT, T), !.v = T]

TransFPType(st, BT) ==
  IF BT.width \in {16, 32, 64} THEN Returning(st, FloatTy(BT.width))
  ELSE IF NDEBUG THEN Returning(st, NullTy)
  ELSE [st EXCEPT !.abort = kInvalidType]

\* the OpTypePipe case once the type of the pipe is translated: st.v is MT
MapPipeType(st, T) ==
  IF st.abort # "" THEN st
  ELSE MapType(Counted(st, "struct", T), T,
               PointerTy(NamedStructTy(T, Get0(st.made, <<"struct", T>>) + 1,
                                       st.v, "opencl.pipe_t"), 1))

RECURSIVE TransType(_, _, _)
RECURSIVE TransMemberTypes(_, _, _, _, _)

\* the loop over ST->getMemberType(I) of the OpTypeStruct case
TransMemberTypes(st, elems, i, MT, ub) ==
  IF i > Len(elems) \/ st.abort # "" THEN Returning(st, MT)
  ELSE LET s1 == TransType(st, elems[i], ub)
       IN  TransMemberTypes(s1, elems, i + 1, Append(MT, s1.v), ub)

\* transType(T).  ub is what the build makes of PointerType::get on a null
\* element type, which is undefined: "crash" or "goes on".
TransType(st, T, ub) ==
  IF T \in DOMAIN st.TM THEN Returning(st, st.TM[T])
  ELSE
    LET BT == BM.types[T]
        s0 == Counted(st, "body", T)
    IN  CASE BT.op = "OpTypeVoid" -> MapType(s0, T, VoidTy)
          [] BT.op = "OpTypeInt" -> MapType(s0, T, IntTy(BT.width))
          [] BT.op = "OpTypeFloat" ->
               LET s1 == TransFPType(s0, BT)
               IN  IF s1.abort # "" THEN s1 ELSE MapType(s1, T, s1.v)
          [] BT.op = "OpTypePointer" ->
               LET s1 == TransType(s0, BT.elems[1], ub)
               IN  IF s1.abort # "" THEN s1
                   ELSE IF s1.v = NullTy /\ ub = "crash"
                   THEN [s1 EXCEPT !.abort = kNullDereferenced]
                   ELSE MapType(s1, T,
                                PointerTy(s1.v, AddrSpaceRmap(BT.sc)))
          [] BT.op = "OpTypeStruct" ->
               LET s1 == TransMemberTypes(s0, BT.elems, 1, <<>>, ub)
                   ST == StructTy(T, Get0(s1.made, <<"struct", T>>) + 1, s1.v)
               IN  IF s1.abort # "" THEN s1
                   ELSE MapType(Counted(s1, "struct", T), T, ST)
          [] BT.op = "OpTypePipe" ->
               \* MT.push_back(transType(PT->getPipeType()));
               \* PointerType::get(StructType::create(*Context, MT,
               \*   "opencl.pipe_t"), SPIRAS_Global)
               MapPipeType(TransMemberTypes(s0, BT.elems, 1, <<>>, ub), T)
          [] OTHER ->
               \* assert(0 && "Not implemented"); return 0;
               IF NDEBUG THEN Returning(s0, NullTy)
               ELSE [s0 EXCEPT !.abort = kNotImplementedType]

\* transTypeVector, and the loop over the parameter types of the
\* OpTypeFunction case
TransTypeVector(st, BT, i, T) == TransMemberTypes(st, BT, i, T, "goes on")

\* Function::isIntrinsic
IsIntrinsic(name) == name.prefix = "llvm."

RECURSIVE CreateBlocksBackwards(_, _, _)
\* Fault seeded in transFunction: the first pass goes over the blocks from
\* the last one to the first one.
CreateBlocksBackwards(st, f, b) ==
  IF b > NumBasicBlock(f) \/ st.abort # "" THEN st
  ELSE CreateBlocksBackwards(
         TransValue(st, LabelV(f, NumBasicBlock(f) + 1 - b), NULL, TRUE),
         f, b + 1)

RECURSIVE CreateBlocks(_, _, _)
\* "Creating all basic blocks before creating instructions."
CreateBlocks(st, f, b) ==
  IF b > NumBasicBlock(f) \/ st.abort # "" THEN st
  ELSE CreateBlocks(TransValue(st, LabelV(f, b), NULL, TRUE), f, b + 1)

\* Fault seeded in transFunction: the linkage of a kernel is translated
\* like that of any other function.
FunctionLinkageOfAny(BF) == LinkageRmap(BF.linkage)

\* auto Linkage = IsKernel ? GlobalValue::ExternalLinkage :
\*     SPIRSPRVLinkageTypeMap::rmap(BF->getLinkageType());
FunctionLinkage(BF) ==
  IF BF.kernel THEN "ExternalLinkage" ELSE LinkageRmap(BF.linkage)

\* transFunction from the creation of the IR function to the end of the
\* first pass over the blocks (BF is not in FuncMap)
\* SPIRSPRVFuncParamAttrMap::rmap
FuncParamAttrRmap(Kind) ==
  CASE Kind = "Zext" -> "ZExt"
    [] Kind = "Sext" -> "SExt"
    [] Kind = "ByVal" -> "ByVal"
    [] Kind = "Sret" -> "StructRet"
    [] Kind = "NoAlias" -> "NoAlias"
    [] Kind = "NoCapture" -> "NoCapture"

\* the body of the loop of transFunction over the arguments of F once
\* mapValue(BA, I) is done: an argument without a name is left as it is
TransArgument(st, f, F, i) ==
  LET BA == BM.funcs[f].params[i] IN
  IF BA.name = "" THEN st
  ELSE [st EXCEPT
          !.M.Func[F].argnames[i] = BA.name,
          !.M.Func[F].argattrs[i] =
            @ \cup {FuncParamAttrRmap(Kind) :
                      Kind \in Range(BA.attrs) \ {"Const"}}]

RECURSIVE TransArguments(_, _, _, _)
\* for (Function::arg_iterator I = F->arg_begin(), ...; I != E; ++I)
TransArguments(st, f, F, i) ==
  IF i > Len(BM.funcs[f].params) \/ st.abort # "" THEN st
  ELSE TransArguments(
         TransArgument(MapValue(st, ArgV(f, i), Handle("arg", ArgV(f, i), 1)),
                       f, F, i),
         f, F, i + 1)

\* transType(BF->getFunctionType()): the return type, then the parameter
\* types, which are the vector returned
TransFunctionType(st, f) ==
  TransTypeVector(TransType(st, BM.funcs[f].ret, "goes on"),
                  [i \in DOMAIN BM.funcs[f].params |->
                     BM.funcs[f].params[i].ty], 1, <<>>)

\* Function::Create(FT, Linkage, BF->getName(), M) and what transFunction
\* does to the new function before it creates the blocks; st is the engine
\* after transType, st.v the parameter types, and the return type is in the
\* type map
CreateFunction(st, f) ==
  LET BF == BM.funcs[f]
      IsKernel == BF.kernel
      Linkage == FunctionLinkage(BF)
      F == NewH(st, "func", FuncV(f))
      nm == Name(IF BF.intrin THEN "llvm." ELSE IF BF.ocl THEN "_Z" ELSE "",
                 FuncV(f))
      s1 == [Counted(st, "func", FuncV(f)) EXCEPT
               !.M.Functions = Append(@, F),
               !.M.Func = Put(@, F, [name |-> nm, linkage |-> Linkage,
                                     cc |-> "C", attrs |-> {},
                                     blocks |-> <<>>,
                                     ret |-> st.TM[BF.ret],
                                     params |-> st.v,
                                     argnames |-> [i \in DOMAIN st.v |-> ""],
                                     argattrs |-> [i \in DOMAIN st.v |-> {}]])]
      s2 == MapFunction(MapValue(s1, FuncV(f), F), FuncV(f), F)
  IN  IF st.abort # "" THEN st
      ELSE TransArguments(IF ~IsIntrinsic(nm)
                          THEN [s2 EXCEPT
                                  !.M.Func[F].cc =
                                    IF IsKernel THEN "SPIR_KERNEL"
                                    ELSE "SPIR_FUNC",
                                  !.M.Func[F].attrs = AddNoUnwind(@)]
                          ELSE s2,
                          f, F, 1)

TransFunctionPrologue(st, f) ==
  CreateBlocks(CreateFunction(TransFunctionType(st, f), f), f, 1)

\* ------------------------------------------------------------------------
\* The run: llvm::ReadSPRV calling SPRVToLLVM::translate
\* ------------------------------------------------------------------------
SPIR_TARGETTRIPLE32 == "spir-unknown-unknown"
SPIR_TARGETTRIPLE64 == "spir64-unknown-unknown"
SPIR_DATALAYOUT32 == "e-p:32:32:32-i1:8:8-i8:8:8-i16:16:16-i32:32:32-i64:64:64-f32:32:32-f64:64:64-v16:16:16-v24:32:32-v32:32:32-v48:64:64-v64:64:64-v96:128:128-v128:128:128-v192:256:256-v256:256:256-v512:512:512-v1024:1024:1024"
SPIR_DATALAYOUT64 == "e-p:64:64:64-i1:8:8-i8:8:8-i16:16:16-i32:32:32-i64:64:64-f32:32:32-f64:64:64-v16:16:16-v24:32:32-v32:32:32-v48:64:64-v64:64:64-v96:128:128-v128:128:128-v192:256:256-v256:256:256-v512:512:512-v1024:1024:1024"
SPIR_MD_KERNELS == "opencl.kernels"
SPIR_MD_ENABLE_FP_CONTRACT == "opencl.enable.FP_CONTRACT"

\* the file DbgTmpLLVMFileName before the run: it does not exist
kNoFile == <<"no file">>

\* dumpLLVM(M, FName): raw_fd_ostream FS(FName, EC, F_None) creates the file
\* or truncates it; the module is sent to FS only if (EC), that is when the
\* file could not be opened, and then no file receives it
DumpLLVM(Mod, File) ==
  IF CanOpen THEN <<>>     \* EC is clear: the file is opened and left empty
  ELSE File                \* EC is set: FS << *M goes to no file

\* The two builds differ only when an assertion fails, which takes an
\* instruction with an opcode the translator does not implement.
CanFailAssert(mod) ==
  \/ \E f \in DOMAIN mod.funcs : \E j \in DOMAIN mod.funcs[f].insts :
        mod.funcs[f].insts[j].op = "OpNop"
  \/ \E t \in DOMAIN mod.types :
        \/ mod.types[t].op = "OpTypeUnknown"
        \/ mod.types[t].op = "OpTypeFloat" /\ mod.types[t].width \notin {16, 32, 64}

\* the engine and ReadSPRV before the first step
Constructed ==
  /\ NDEBUG \in IF CanFailAssert(BM) THEN BOOLEAN ELSE {FALSE}
  /\ fi = 0
  /\ stack = <<>>
  /\ ValueMap = EmptyMap
  /\ PlaceholderMap = EmptyMap
  /\ FuncMap = EmptyMap
  /\ BuiltinGVMap = EmptyMap
  /\ M = EmptyModule
  /\ made = EmptyMap
  /\ ErrorLog = "Success"
  /\ stages = <<>>
  /\ ret = "none"
  /\ Succeed = TRUE
  /\ ErrMsg = ""
  /\ Mptr = "module"
  /\ TypeMap = EmptyMap
  /\ Returned = EmptyMap
  /\ TmpFile = kNoFile

\* DbgSaveTmpLLVM is true in the source; the runs over the modules of
\* AddrModules also take it false, and take the file as one that cannot be
\* opened
Init ==
  /\ BM \in BodyModules \cup DeclModules \cup AddrModules \cup KernelModules
            \cup MemModules \cup BuiltinModules \cup CallSiteModules
            \cup ConvertModules \cup BranchModules \cup ParamModules
            \cup ShiftModules
  /\ DbgSaveTmpLLVM \in IF BM \in AddrModules THEN BOOLEAN ELSE {TRUE}
  /\ CanOpen \in IF BM \in AddrModules THEN BOOLEAN ELSE {TRUE}
  /\ pc = "addressing"
  /\ Constructed

Engine == [VM |-> ValueMap, PM |-> PlaceholderMap, FM |-> FuncMap, M |-> M,
           TM |-> TypeMap, BGV |-> BuiltinGVMap, made |-> made,
           abort |-> "", v |-> NULL]

Commit(st) ==
  /\ ValueMap' = st.VM
  /\ PlaceholderMap' = st.PM
  /\ FuncMap' = st.FM
  /\ M' = st.M
  /\ made' = st.made
  /\ TypeMap' = st.TM
  /\ BuiltinGVMap' = st.BGV

engineVars == <<ValueMap, PlaceholderMap, FuncMap, M, made, TypeMap,
                BuiltinGVMap>>
outVars == <<ErrorLog, ret, Succeed, ErrMsg, Mptr>>

\* a failed assertion ends the process
Abort(st) ==
  /\ pc' = st.abort
  /\ UNCHANGED <<fi, stack, engineVars, stages>>

Enter(s) ==
  IF stages # <<>> /\ stages[Len(stages)] = s THEN stages
  ELSE Append(stages, s)

\* where translate() continues when a loop has no (more) iterations
AfterVars == IF NumFuncs > 0 THEN "funcs" ELSE "kernelmd"
AfterAddressing == IF Len(BM.vars) > 0 THEN "vars" ELSE AfterVars

\* Fault seeded in translate(): the result of transAddressingModel is
\* ignored and the next stage starts.
TranslateGoesOn ==
  /\ ret' = ret
  /\ pc' = AfterAddressing
  /\ fi' = 1

\* if (!transAddressingModel()) return false;
TranslateFails ==
  /\ ret' = "false"
  /\ pc' = "translated"
  /\ fi' = fi

\* SPRVCKRT(Condition, ErrCode, ErrMsg): record the error and make the
\* enclosing function return false
CheckError(log, Condition, ErrCode) ==
  IF Condition \/ log # "Success" THEN log ELSE ErrCode

\* Fault seeded in transAddressingModel: Physical64 gets the 32-bit data
\* layout, and Logical gets the 32-bit target triple.
TransAddressingModelOf32 ==
  /\ pc = "addressing"
  /\ stages' = Enter("addressing")
  /\ UNCHANGED <<typeVars, dbgVars, BM, NDEBUG, stack, ValueMap, PlaceholderMap, FuncMap,
                 BuiltinGVMap, made, Succeed, ErrMsg, Mptr>>
  /\ CASE BM.am = "Physical64" ->
            /\ M' = [M EXCEPT !.TargetTriple = SPIR_TARGETTRIPLE64,
                              !.DataLayout = SPIR_DATALAYOUT32]
            /\ pc' = AfterAddressing /\ fi' = 1
            /\ UNCHANGED <<ErrorLog, ret>>
       [] BM.am = "Physical32" ->
            /\ M' = [M EXCEPT !.TargetTriple = SPIR_TARGETTRIPLE32,
                              !.DataLayout = SPIR_DATALAYOUT32]
            /\ pc' = AfterAddressing /\ fi' = 1
            /\ UNCHANGED <<ErrorLog, ret>>
       [] BM.am = "Logical" ->
            /\ M' = [M EXCEPT !.TargetTriple = SPIR_TARGETTRIPLE32]
            /\ pc' = AfterAddressing /\ fi' = 1
            /\ UNCHANGED <<ErrorLog, ret>>
       [] OTHER ->
            /\ ErrorLog' = CheckError(ErrorLog, FALSE, "InvalidAddressingModel")
            /\ TranslateFails
            /\ UNCHANGED M

TransAddressingModel ==
  /\ pc = "addressing"
  /\ stages' = Enter("addressing")
  /\ UNCHANGED <<typeVars, dbgVars, BM, NDEBUG, stack, ValueMap, PlaceholderMap, FuncMap,
                 BuiltinGVMap, made, Succeed, ErrMsg, Mptr>>
  /\ CASE BM.am = "Physical64" ->
            /\ M' = [M EXCEPT !.TargetTriple = SPIR_TARGETTRIPLE64,
                              !.DataLayout = SPIR_DATALAYOUT64]
            /\ pc' = AfterAddressing /\ fi' = 1
            /\ UNCHANGED <<ErrorLog, ret>>
       [] BM.am = "Physical32" ->
            /\ M' = [M EXCEPT !.TargetTriple = SPIR_TARGETTRIPLE32,
                              !.DataLayout = SPIR_DATALAYOUT32]
            /\ pc' = AfterAddressing /\ fi' = 1
            /\ UNCHANGED <<ErrorLog, ret>>
       [] BM.am = "Logical" ->
            /\ pc' = AfterAddressing /\ fi' = 1
            /\ UNCHANGED <<M, ErrorLog, ret>>
       [] OTHER ->
            \* SPRVCKRT(0, InvalidAddressingModel, ...): translate() returns
            \* false
            /\ ErrorLog' = CheckError(ErrorLog, FALSE, "InvalidAddressingModel")
            /\ TranslateFails
            /\ UNCHANGED M

\* one iteration of the loop over BM->getVariable(I)
TransVariable ==
  /\ pc = "vars"
  /\ stages' = Enter("vars")
  /\ LET BV == VarV(fi)
         st == IF BM.vars[fi].sc # "Function"
               THEN TransValue(Engine, BV, NULL, TRUE)
               ELSE Engine
     IN  Commit(st)
  /\ IF fi < Len(BM.vars) THEN pc' = "vars" /\ fi' = fi + 1
     ELSE pc' = AfterVars /\ fi' = 1
  /\ UNCHANGED <<Returned, dbgVars, BM, NDEBUG, stack, outVars>>

\* the loop over BM->getFunction(I) moves on
FuncLoopNext ==
  IF fi < NumFuncs THEN pc' = "funcs" /\ fi' = fi + 1
  ELSE pc' = "kernelmd" /\ fi' = 0

\* translate() after transFunction(BM->getFunction(I)) created the function
\* and its blocks: the second pass over the instructions starts, or the
\* loop moves on
EnterFunction(st) ==
  IF st.abort # "" THEN Abort(st)
  ELSE /\ Commit(st)
       /\ stages' = Enter("funcs")
       /\ IF NumInsts(fi) = 0 THEN FuncLoopNext /\ stack' = <<>>
          ELSE /\ stack' = <<[f |-> fi, j |-> 1]>>
               /\ UNCHANGED <<pc, fi>>

\* Fault seeded in transFunction: FuncMap is not looked up.
TransFunctionHitNever(FM, BF) == FALSE

\* the early return of transFunction
TransFunctionHit(FM, BF) == BF \in DOMAIN FM

\* translate() calls transFunction(BM->getFunction(I))
TransFunction ==
  /\ pc = "funcs" /\ stack = <<>>
  /\ UNCHANGED <<Returned, dbgVars, BM, NDEBUG, outVars>>
  /\ IF TransFunctionHit(FuncMap, FuncV(fi))
     THEN FuncLoopNext /\ stages' = Enter("funcs")
          /\ UNCHANGED <<stack, engineVars>>
     ELSE EnterFunction(TransFunctionPrologue(Engine, fi))

Top == stack[Len(stack)]
CurInst == InstV(Top.f, Top.j)
CurBB == ValueMap[LabelV(Top.f, BlockOf(Top.f, Top.j))]
StepTop == [stack EXCEPT ![Len(stack)].j = @ + 1]

\* the second pass of transFunction goes on at the instruction rest names
\* once st is the engine after the translation of the current one, or the
\* failed assertion ends the process
Proceed(st, rest) ==
  IF st.abort # "" THEN Abort(st)
  ELSE Commit(st) /\ stack' = rest /\ UNCHANGED <<pc, fi, stages>>

\* transFunction's second pass translates the next instruction:
\* transValue(BInst, F, BB, false), for every opcode but a call that has
\* to be translated
TransInst ==
  /\ pc = "funcs" /\ stack # <<>>
  /\ Top.j <= NumInsts(Top.f)
  /\ OpCodeOf(CurInst) # "OpFunctionCall"
  /\ UNCHANGED <<Returned, dbgVars, BM, NDEBUG, outVars>>
  /\ Proceed(TransValue(Engine, CurInst, CurBB, FALSE), StepTop)

\* the OpFunctionCall case once transFunction created the callee g and its
\* blocks: the second pass over the instructions of g starts, or g has none
\* and the call is emitted
EnterCallee(st, g) ==
  IF st.abort # "" THEN Abort(st)
  ELSE IF NumInsts(g) > 0
  THEN /\ Commit(st)
       /\ stack' = Append(stack, [f |-> g, j |-> 1])
       /\ UNCHANGED <<pc, fi, stages>>
  ELSE Proceed(EmitCall(st, CurInst, CurBB, st.FM[FuncV(g)]), StepTop)

\* transValue(BInst, F, BB, false) of an OpFunctionCall: transFunction of
\* the callee runs first, and the call is emitted when it has returned
TransCall ==
  /\ pc = "funcs" /\ stack # <<>>
  /\ Top.j <= NumInsts(Top.f)
  /\ OpCodeOf(CurInst) = "OpFunctionCall"
  /\ UNCHANGED <<Returned, dbgVars, BM, NDEBUG, outVars>>
  /\ LET g == BM.funcs[Top.f].insts[Top.j].callee
         BF == FuncV(g)
     IN  IF TransValueHit(Engine, CurInst, FALSE)
         THEN stack' = StepTop /\ UNCHANGED <<pc, fi, stages, engineVars>>
         ELSE IF TransFunctionHit(FuncMap, BF)
         THEN Proceed(EmitCall(Engine, CurInst, CurBB, FuncMap[BF]), StepTop)
         ELSE EnterCallee(TransFunctionPrologue(Engine, g), g)

\* transFunction returns F: to translate()'s loop, or to the OpFunctionCall
\* case, which emits the call
TransFunctionReturn ==
  /\ pc = "funcs" /\ stack # <<>>
  /\ Top.j > NumInsts(Top.f)
  /\ UNCHANGED <<Returned, dbgVars, BM, NDEBUG, outVars>>
  /\ IF Len(stack) = 1
     THEN stack' = <<>> /\ FuncLoopNext /\ UNCHANGED <<engineVars, stages>>
     ELSE LET rest == SubSeq(stack, 1, Len(stack) - 1)
              caller == rest[Len(rest)]
              BV == InstV(caller.f, caller.j)
              BB == ValueMap[LabelV(caller.f, BlockOf(caller.f, caller.j))]
          IN  Proceed(EmitCall(Engine, BV, BB, FuncMap[FuncV(Top.f)]),
                      [rest EXCEPT ![Len(rest)].j = @ + 1])

\* Module::getOrInsertNamedMetadata
GetOrInsertNamedMetadata(Mod, MDName) ==
  IF MDName \in DOMAIN Mod.NamedMD THEN Mod
  ELSE [Mod EXCEPT !.NamedMD = Put(@, MDName, <<>>)]

\* NamedMDNode::addOperand on getOrInsertNamedMetadata(MDName)
AddNamedMDOperand(Mod, MDName, Node) ==
  [GetOrInsertNamedMetadata(Mod, MDName) EXCEPT
     !.NamedMD[MDName] = Append(@, Node)]

MD(tag, val) == [tag |-> tag, val |-> val]

\* the lambda of kernel_arg_addr_space (no type of the model is an OpenCL
\* image or a pipe)
ArgAddrSpace(Arg) ==
  LET ArgTy == BM.types[Arg.ty]
  IN  IF ArgTy.op = "OpTypePointer" THEN AddrSpaceRmap(ArgTy.sc)
      ELSE 0                             \* SPIRAS_Private

\* the lambda of kernel_arg_access_qual
ArgAccessQual(Arg) == "none"

\* transOCLKernelArgTypeName; the name of a type is kept symbolic
TransOCLKernelArgTypeName(Arg) == <<"type name", Arg.ty>>

\* the body of the lambda that the lambda of kernel_arg_type_qual passes to
\* Arg->foreachAttr
AddTypeQual(Qual, Kind) ==
  (Qual \o (IF Qual = "" THEN "" ELSE " "))
    \o (CASE Kind = "NoAlias" -> "restrict"
           [] Kind = "Const" -> "const"
           [] OTHER -> "")

RECURSIVE ForeachAttrTypeQual(_, _, _)
\* Arg->foreachAttr of the lambda of kernel_arg_type_qual, from attribute i
ForeachAttrTypeQual(Qual, attrs, i) ==
  IF i > Len(attrs) THEN Qual
  ELSE ForeachAttrTypeQual(AddTypeQual(Qual, attrs[i]), attrs, i + 1)

\* the lambda of kernel_arg_type_qual
ArgTypeQual(Arg) ==
  ForeachAttrTypeQual(IF Arg.volatile THEN "volatile" ELSE "", Arg.attrs, 1)

\* the lambda of kernel_arg_name
ArgName(Arg) == Arg.name

\* the lambda that transKernelMetadata passes for the node headed MDName
ArgumentFunc(MDName, Arg) ==
  CASE MDName = "kernel_arg_addr_space" -> ArgAddrSpace(Arg)
    [] MDName = "kernel_arg_access_qual" -> ArgAccessQual(Arg)
    [] MDName = "kernel_arg_type" -> TransOCLKernelArgTypeName(Arg)
    [] MDName = "kernel_arg_type_qual" -> ArgTypeQual(Arg)
    [] MDName = "kernel_arg_base_type" -> TransOCLKernelArgTypeName(Arg)
    [] MDName = "kernel_arg_name" -> ArgName(Arg)

\* Fault seeded in addOCLKernelArgumentMetadata: the last argument gets no
\* operand.
ArgumentMetadataButLast(MDName, BF) ==
  <<MDName>> \o [i \in 1..(IF BF.params = <<>> THEN 0
                            ELSE Len(BF.params) - 1) |->
                   ArgumentFunc(MDName, BF.params[i])]

\* addOCLKernelArgumentMetadata: the node of the header string MDName
\* followed by Func(Arg) for each argument of BF
ArgumentMetadata(MDName, BF) ==
  <<MDName>> \o [i \in DOMAIN BF.params |->
                   ArgumentFunc(MDName, BF.params[i])]

\* getMDNodeStringIntVec; the literals of an execution mode are not modelled
GetMDNodeStringIntVec(Str) == <<Str, "literals">>

\* the operands of the metadata node of kernel F = BF up to the execution
\* modes
KernelMD(BF, F) ==
  <<MD("function", F),
    ArgumentMetadata("kernel_arg_addr_space", BF),
    ArgumentMetadata("kernel_arg_access_qual", BF),
    ArgumentMetadata("kernel_arg_type", BF),
    ArgumentMetadata("kernel_arg_type_qual", BF),
    ArgumentMetadata("kernel_arg_base_type", BF)>>
    \o (IF (\E i \in DOMAIN BM.flags : BM.flags[i] = "-cl-kernel-arg-info")
           /\ \A i \in DOMAIN BF.params : BF.params[i].name # ""
        THEN <<ArgumentMetadata("kernel_arg_name", BF)>>
        ELSE <<>>)

\* the type that the literal of a VecTypeHint execution mode names
VecTypeHintType == IF Len(BM.types) > 1 THEN 2 ELSE 1

\* Fault seeded in transKernelMetadata: the node of work_group_size_hint
\* is pushed before that of reqd_work_group_size.
KernelMDModesHintFirst(st, BF, KMD) ==
  LET k1 == IF "LocalSizeHint" \in BF.modes
            THEN Append(KMD, GetMDNodeStringIntVec("work_group_size_hint"))
            ELSE KMD
      k2 == IF "LocalSize" \in BF.modes
            THEN Append(k1, GetMDNodeStringIntVec("reqd_work_group_size"))
            ELSE k1
  IN  IF "VecTypeHint" \in BF.modes
      THEN LET s1 == TransType(st, VecTypeHintType, "goes on")
           IN  Returning(s1, Append(k2, <<"vec_type_hint", s1.v, 0>>))
      ELSE Returning(st, k2)

\* the nodes of the execution modes, pushed after KMD
KernelMDModes(st, BF, KMD) ==
  LET k1 == IF "LocalSize" \in BF.modes
            THEN Append(KMD, GetMDNodeStringIntVec("reqd_work_group_size"))
            ELSE KMD
      k2 == IF "LocalSizeHint" \in BF.modes
            THEN Append(k1, GetMDNodeStringIntVec("work_group_size_hint"))
            ELSE k1
  IN  IF "VecTypeHint" \in BF.modes
      THEN LET s1 == TransType(st, VecTypeHintType, "goes on")
           IN  Returning(s1, Append(k2, <<"vec_type_hint", s1.v, 0>>))
      ELSE Returning(st, k2)

\* one iteration of the loop of transKernelMetadata, for a function F
\* that passed the test of the calling convention
KernelMDNode(st, I, F) ==
  LET s1 == KernelMDModes(st, BM.funcs[I], KernelMD(BM.funcs[I], F))
  IN  [s1 EXCEPT !.M = AddNamedMDOperand(@, SPIR_MD_KERNELS, s1.v)]

RECURSIVE KernelMDLoop(_, _)
\* Fault seeded in transKernelMetadata: no test of the calling convention,
\* every function gets an operand.
KernelMDLoopOfAll(st, I) ==
  IF I > NumFuncs THEN st
  ELSE KernelMDLoop(KernelMDNode(st, I, st.VM[FuncV(I)]), I + 1)

\* the loop of transKernelMetadata over BM->getFunction(I), from I on
KernelMDLoop(st, I) ==
  IF I > NumFuncs THEN st
  ELSE LET F == st.VM[FuncV(I)]      \* getTranslatedValue(BF)
       IN  IF st.M.Func[F].cc # "SPIR_KERNEL" THEN KernelMDLoop(st, I + 1)
           ELSE KernelMDLoop(KernelMDNode(st, I, F), I + 1)

TransKernelMetadata ==
  /\ pc = "kernelmd"
  /\ stages' = Enter("kernelmd")
  /\ Commit(KernelMDLoop(
              [Engine EXCEPT
                 !.M = GetOrInsertNamedMetadata(@, SPIR_MD_KERNELS)], 1))
  /\ pc' = "fpcontract"
  /\ UNCHANGED <<Returned, dbgVars, BM, NDEBUG, fi, stack,
                 outVars>>

\* isOpenCLKernel
IsOpenCLKernel(f) == BM.funcs[f].kernel

\* Fault seeded in transFPContractMetadata: the functions that are not
\* kernels are not skipped.
ContractOffOfAny == \E f \in 1..NumFuncs : BM.funcs[f].contractionOff

\* the local ContractOff of transFPContractMetadata after its loop
ContractOff ==
  \E f \in 1..NumFuncs : IsOpenCLKernel(f) /\ BM.funcs[f].contractionOff

TransFPContractMetadata ==
  /\ pc = "fpcontract"
  /\ stages' = Enter("fpcontract")
  /\ M' = IF ~ContractOff
              THEN GetOrInsertNamedMetadata(M, SPIR_MD_ENABLE_FP_CONTRACT)
              ELSE M
  /\ pc' = "srclang"
  /\ UNCHANGED <<typeVars, dbgVars, BM, NDEBUG, fi, stack, ValueMap, PlaceholderMap, FuncMap,
                 BuiltinGVMap, made, outVars>>

TransSourceLanguage ==
  /\ pc = "srclang"
  /\ stages' = Enter("srclang")
  /\ LET Major == BM.ver \div 10
         Minor == BM.ver % 10
     IN  M' = AddNamedMDOperand(
                AddNamedMDOperand(M, "opencl.spir.version", <<Major, Minor>>),
                "opencl.ocl.version", <<Major, Minor>>)
  /\ pc' = "srcext"
  /\ UNCHANGED <<typeVars, dbgVars, BM, NDEBUG, fi, stack, ValueMap, PlaceholderMap, FuncMap,
                 BuiltinGVMap, made, outVars>>

\* getMDString: a node holding Str, or an empty node for an empty string;
\* a string is the sequence of its words
GetMDString(Str) == IF Str = <<>> THEN <<>> ELSE <<Str>>

\* the module of the model declares no source extension
TransSourceExtension ==
  /\ pc = "srcext"
  /\ stages' = Enter("srcext")
  /\ M' = AddNamedMDOperand(
            AddNamedMDOperand(M, "opencl.used.extensions", GetMDString(<<>>)),
            "opencl.used.optional.core.features", GetMDString(<<>>))
  /\ pc' = "compileropt"
  /\ UNCHANGED <<typeVars, dbgVars, BM, NDEBUG, fi, stack, ValueMap, PlaceholderMap, FuncMap,
                 BuiltinGVMap, made, outVars>>

TransCompilerOption ==
  /\ pc = "compileropt"
  /\ stages' = Enter("compileropt")
  /\ M' = AddNamedMDOperand(M, "opencl.compiler.options",
                            GetMDString(BM.flags))
  /\ pc' = "builtinvars"
  /\ UNCHANGED <<typeVars, dbgVars, BM, NDEBUG, fi, stack, ValueMap, PlaceholderMap, FuncMap,
                 BuiltinGVMap, made, outVars>>

\* isSPRVBuiltinVariable
IsSPRVBuiltinVariable(GV) == GV \in DOMAIN BuiltinGVMap

kUnsupportedUse == "Unsupported use"

\* mangle(SPRVBIS_OpenCL20, SPIRSPRVBuiltinVariableMap::rmap(Kind), ArgTy,
\* MangledName): the name is kept symbolic, it tells the builtin and the
\* number of its i32 parameters
MangledBuiltinName(Kind, IsVec) ==
  Name("_Z", <<Kind, IF IsVec THEN 1 ELSE 0, 0>>)

RECURSIVE ReplaceUsesByCalls(_, _, _)
\* for (auto &I:Uses): a call of Func is created before I, with the index
\* operand of I as its argument when I is an extractelement, and takes the
\* place of I in every user of I
ReplaceUsesByCalls(st, Func, Uses) ==
  IF Uses = {} THEN st
  ELSE LET I == CHOOSE i \in Uses : TRUE
           Arg == IF st.M.Insts[I].opc = "extractelement"
                  THEN <<st.M.Insts[I].ops[2]>>
                  ELSE <<>>
           Call == NewH(st, "call", I.bv)
           s1 == InsertBefore(Counted(st, "call", I.bv), Call, "call",
                              <<Func>> \o Arg, I)
           s2 == [s1 EXCEPT !.M.Insts = ReplaceAllUsesWith(@, I, Call)]
       IN  ReplaceUsesByCalls(s2, Func, Uses \ {I})

RECURSIVE DetachInsts(_, _)
\* for (auto &I:Deletes) { I->dropAllReferences(); I->removeFromParent(); }
DetachInsts(Mod, Deletes) ==
  IF Deletes = {} THEN Mod
  ELSE LET I == CHOOSE i \in Deletes : TRUE
       IN  DetachInsts(DetachInst(Mod, I), Deletes \ {I})

\* Fault seeded in transOCLBuiltinFromVariable: the extracts of a vector
\* builtin are replaced by calls, its loads are left in the block.
DeletesOfUses(LDs, Uses) == Uses

\* the instructions transOCLBuiltinFromVariable puts on Deletes
DeletesOf(LDs, Uses) == Uses \cup LDs

\* transOCLBuiltinFromVariable
\* transOCLBuiltinFromVariable once Func is declared: the loops over the
\* uses of GV, over Uses and over Deletes
DemoteUses(st, GV, Func, IsVec) ==
  LET LDs == Users(st.M, GV)
      Uses == IF ~IsVec THEN LDs ELSE UNION {Users(st.M, LD) : LD \in LDs}
      Unsupported ==
        \/ \E LD \in LDs : st.M.Insts[LD].opc # "load"
        \/ IsVec /\ \E EEI \in Uses : st.M.Insts[EEI].opc # "extractelement"
  IN  IF Unsupported
      THEN \* assert(isa<...>(*UI) && "Unsupported use"); without the
           \* assertion the null result of dyn_cast is dereferenced
           [st EXCEPT !.abort = IF NDEBUG THEN kNullDereferenced
                                ELSE kUnsupportedUse]
      ELSE [ReplaceUsesByCalls(st, Func, Uses) EXCEPT
              !.M = DetachInsts(@, DeletesOf(LDs, Uses))]

TransOCLBuiltinFromVariable(st, GV, Kind) ==
  LET G == st.M.Globals[CHOOSE i \in DOMAIN st.M.Globals :
                          st.M.Globals[i].h = GV]
      IsVec == G.vec
      MangledName == MangledBuiltinName(Kind, IsVec)
      Found == GetFunction(st.M, MangledName)
      Func == IF Found # NULL THEN Found
              ELSE NewH(st, "builtin", MangledName.base)
      s1 == IF Found # NULL THEN st
            ELSE [FunctionCreate(Counted(st, "builtin", MangledName.base),
                                 Func, ScalarTy,
                                 IF IsVec THEN <<IntTy(32)>> ELSE <<>>,
                                 "ExternalLinkage", MangledName)
                    EXCEPT !.M.Func[Func].cc = "SPIR_FUNC",
                           !.M.Func[Func].attrs =
                             @ \cup {"NoUnwind", "ReadNone"}]
  IN  DemoteUses(s1, GV, Func, IsVec)

RECURSIVE BuiltinsFromVariablesLoop(_, _, _)
\* the loop of transOCLBuiltinsFromVariables over the global variables of
\* the module, then the loop over WorkList
BuiltinsFromVariablesLoop(st, Globals, i) ==
  IF st.abort # "" THEN st
  ELSE IF i > Len(Globals)
  THEN [st EXCEPT !.M.Globals =
          SelectSeq(@, LAMBDA g : ~IsSPRVBuiltinVariable(g.h))]
  ELSE IF ~IsSPRVBuiltinVariable(Globals[i].h)
  THEN BuiltinsFromVariablesLoop(st, Globals, i + 1)
  ELSE BuiltinsFromVariablesLoop(
         TransOCLBuiltinFromVariable(st, Globals[i].h,
                                     BuiltinGVMap[Globals[i].h]),
         Globals, i + 1)

\* translate() goes on to the stage after once st is the engine at the end
\* of the stage, or the process ended in it
EndStage(st, stage, after) ==
  IF st.abort # "" THEN Abort(st)
  ELSE /\ Commit(st)
       /\ stages' = Enter(stage)
       /\ pc' = after
       /\ UNCHANGED <<fi, stack>>

\* transOCLBuiltinsFromVariables
TransOCLBuiltinsFromVariables ==
  /\ pc = "builtinvars"
  /\ EndStage(BuiltinsFromVariablesLoop(Engine, M.Globals, 1),
              "builtinvars", "postprocess")
  /\ UNCHANGED <<Returned, dbgVars, BM, NDEBUG, outVars>>

\* oclIsBuiltin: the name is the mangled name of an OpenCL builtin
OclIsBuiltin(nm) == nm.prefix = "_Z"

\* getOrCreateFunction: the function of the module with that name and that
\* type, or else a new declaration with the device calling convention and
\* no-unwind
GetOrCreateFunction(st, RetTy, ArgTypes, nm) ==
  LET Found == GetFunction(st.M, nm)
      F == NewH(st, "decl", nm.base)
      s1 == FunctionCreate(Counted(st, "decl", nm.base), F, RetTy, ArgTypes,
                           "ExternalLinkage", nm)
  IN  IF Found # NULL /\ st.M.Func[Found].ret = RetTy
                      /\ st.M.Func[Found].params = ArgTypes
      THEN Returning(st, Found)
      ELSE Returning([s1 EXCEPT !.M.Func[F].cc = "SPIR_FUNC",
                                !.M.Func[F].attrs = @ \cup {"NoUnwind"}], F)

\* *(V->user_begin()): the use list of a value has its latest use first, and
\* the users of a call are created after it, in the order of their block;
\* NULL when V has no user
FirstUser(Mod, V) ==
  LET BB == Mod.Blocks[Mod.Insts[V].parent]
      At == {i \in DOMAIN BB : BB[i] \in Users(Mod, V)}
  IN  IF At = {} THEN NULL
      ELSE BB[CHOOSE i \in At : \A k \in At : k <= i]

\* Fault seeded in postProcessOCLBuiltinReturnStruct: the destination of
\* the store is added after the arguments of the old call.
SretArgumentsLast(Dst, Args) == Args \o <<Dst>>

\* Args.insert(Args.begin(), ST->getPointerOperand())
SretArguments(Dst, Args) == <<Dst>> \o Args

\* the body of the loop of postProcessOCLBuiltinReturnStruct for the user
\* CI of F, a call.  When CI has no user, or its first user is not a store,
\* ST is not a store that can be read: the process ends there (ub =
\* "crash"), or what is read as its pointer operand is no value of the
\* module and nothing is detached for it (ub = "goes on").
RewriteStructCall(st, F, nm, CI, ub) ==
  LET U == FirstUser(st.M, CI)
      IsStore == U # NULL /\ st.M.Insts[U].opc = "store"
      Dst == IF IsStore THEN st.M.Insts[U].ops[2] ELSE NULL
      ArgTys == <<PointerTy(st.M.Func[F].ret, 0)>> \o st.M.Func[F].params
      s1 == GetOrCreateFunction(st, VoidTy, ArgTys, nm)
      newF == s1.v
      Args == SretArguments(Dst, Tail(st.M.Insts[CI].ops))
      Call == NewH(s1, "call", CI.bv)
      s2 == InsertBefore(Counted(s1, "call", CI.bv), Call, "call",
                         <<newF>> \o Args, CI)
      s3 == IF IsStore THEN [s2 EXCEPT !.M = DetachInst(@, U)] ELSE s2
  IN  IF ~IsStore /\ ub = "crash"
      THEN [st EXCEPT !.abort = kNullDereferenced]
      ELSE [s3 EXCEPT !.M = DetachInst(@, CI)]

RECURSIVE RewriteStructCalls(_, _, _, _, _)
\* for (auto I = F->user_begin(), E = F->user_end(); I != E; ++I)
\*   if (auto CI = dyn_cast<CallInst>(*I)) ...
RewriteStructCalls(st, F, nm, Calls, ub) ==
  IF Calls = {} \/ st.abort # "" THEN st
  ELSE LET CI == CHOOSE c \in Calls : TRUE
       IN  RewriteStructCalls(RewriteStructCall(st, F, nm, CI, ub), F, nm,
                              Calls \ {CI}, ub)

\* F->dropAllReferences(); F->removeFromParent()
EraseFromParent(st, F) ==
  IF st.abort # "" THEN st
  ELSE [st EXCEPT !.M.Functions = SelectSeq(@, LAMBDA g : g # F)]

\* postProcessOCLBuiltinReturnStruct; it returns true
PostProcessOCLBuiltinReturnStruct(st, F, ub) ==
  LET nm == st.M.Func[F].name
      s1 == [st EXCEPT !.M.Func[F].name.suffix = Append(@, ".old")]
      Calls == {CI \in Users(st.M, F) : st.M.Insts[CI].opc = "call"}
  IN  EraseFromParent(RewriteStructCalls(s1, F, nm, Calls, ub), F)

\* the function after F in the function list of Mod, NULL at its end
NextFunction(Mod, F) ==
  LET i == CHOOSE k \in DOMAIN Mod.Functions : Mod.Functions[k] = F
  IN  IF i < Len(Mod.Functions) THEN Mod.Functions[i + 1] ELSE NULL

RECURSIVE PostProcessLoop(_, _, _)
\* the loop of postProcessOCL over the functions of the module, from F on:
\* auto F = I++ steps to the function after F before F is rewritten.  No
\* type of the modules is a pointer to a function, so no function has a
\* function pointer argument and the second rewrite has nothing to do.
PostProcessLoop(st, F, ub) ==
  IF F = NULL \/ st.abort # "" THEN st
  ELSE LET Fn == st.M.Func[F]
           Next == NextFunction(st.M, F)
           s1 == IF Fn.blocks = <<>> /\ Fn.ret.k = "struct"
                                     /\ OclIsBuiltin(Fn.name)
                 THEN PostProcessOCLBuiltinReturnStruct(st, F, ub)
                 ELSE st
       IN  PostProcessLoop(s1, Next, ub)

\* translate() returns what postProcessOCL returned, true, once st is the
\* engine at the end of postProcessOCL, or the process ended in it
EndTranslate(st) ==
  /\ EndStage(st, "postprocess", "translated")
  /\ ret' = IF st.abort # "" THEN ret ELSE "true"

\* postProcessOCL returns true, and translate() returns true
PostProcessOCL ==
  /\ pc = "postprocess"
  /\ \E ub \in {"crash", "goes on"} :
       EndTranslate(PostProcessLoop(Engine,
                                    IF M.Functions = <<>> THEN NULL
                                    ELSE M.Functions[1], ub))
  /\ UNCHANGED <<Returned, dbgVars, BM, NDEBUG, ErrorLog, Succeed, ErrMsg,
                 Mptr>>

\* Fault seeded in ReadSPRV: the module is handed out although translate()
\* failed.
ReadSPRVReturnKeepsModule ==
  /\ pc = "translated"
  /\ Succeed' = (ret = "true")
  /\ ErrMsg' = IF ret # "true" THEN ErrorLog ELSE ErrMsg
  /\ Mptr' = Mptr
  /\ TmpFile' = IF DbgSaveTmpLLVM THEN DumpLLVM(M, TmpFile) ELSE TmpFile
  /\ pc' = "done"
  /\ UNCHANGED <<typeVars, DbgSaveTmpLLVM, CanOpen, BM, NDEBUG, fi, stack,
                 engineVars, BuiltinGVMap, ErrorLog, stages, ret>>

\* ReadSPRV after BTL.translate() returned
ReadSPRVReturn ==
  /\ pc = "translated"
  /\ Succeed' = (ret = "true")
  /\ ErrMsg' = IF ret # "true" THEN ErrorLog ELSE ErrMsg   \* BM->getError
  /\ TmpFile' = IF DbgSaveTmpLLVM THEN DumpLLVM(M, TmpFile) ELSE TmpFile
  /\ Mptr' = IF ret # "true" THEN "null" ELSE Mptr  \* delete M; M = nullptr
  /\ pc' = "done"
  /\ UNCHANGED <<typeVars, DbgSaveTmpLLVM, CanOpen, BM, NDEBUG, fi, stack,
                 engineVars, BuiltinGVMap, ErrorLog, stages, ret>>

Next ==
  \/ TransAddressingModel
  \/ TransVariable
  \/ TransFunction
  \/ TransInst
  \/ TransCall
  \/ TransFunctionReturn
  \/ TransKernelMetadata
  \/ TransFPContractMetadata
  \/ TransSourceLanguage
  \/ TransSourceExtension
  \/ TransCompilerOption
  \/ TransOCLBuiltinsFromVariables
  \/ PostProcessOCL
  \/ ReadSPRVReturn

Spec == Init /\ [][Next]_vars

\* ------------------------------------------------------------------------
\* The run of translate() up to the end of its loop over the functions, on
\* modules of functions that call themselves and each other
\* ------------------------------------------------------------------------
CallChoices ==
  {Instr("OpFunctionCall", <<>>, g) : g \in 1..MaxFuncs}
    \cup {Instr("OpVariable", <<>>, 0)}

\* Every call graph over MaxFuncs functions with bodies of one block and up
\* to MaxInsts instructions, beside one module-scope variable.
CallGraphModules ==
  {SModule("Physical64", <<SVariable("CrossWorkgroup", "", FALSE)>>,
           [f \in 1..MaxFuncs |->
              SFunction(FALSE, FALSE, "Export", FALSE, bodies[f],
                        Len(bodies[f]))]) :
     bodies \in [1..MaxFuncs ->
                   UNION {[1..n -> CallChoices] : n \in 1..MaxInsts}]}

InitLive ==
  /\ BM \in CallGraphModules
  /\ DbgSaveTmpLLVM = TRUE
  /\ CanOpen = TRUE
  /\ pc = "addressing"
  /\ Constructed

NextLive ==
  \/ TransAddressingModel
  \/ TransVariable
  \/ TransFunction
  \/ TransInst
  \/ TransCall
  \/ TransFunctionReturn

\* translate() runs in one thread from its call to its return or to the
\* failed assertion that ends the process: a step that can be taken is
\* taken.
SpecLive == InitLive /\ [][NextLive]_vars /\ WF_vars(NextLive)

\* ------------------------------------------------------------------------
\* The run of transType over the types of a module
\* ------------------------------------------------------------------------
InitType ==
  /\ BM \in TypeModules
  /\ DbgSaveTmpLLVM = TRUE
  /\ CanOpen = TRUE
  /\ pc = "types"
  /\ Constructed

runVars == <<stack, ValueMap, PlaceholderMap, FuncMap, BuiltinGVMap, M,
             ErrorLog, stages, ret, Succeed, ErrMsg, Mptr>>

\* the translation of a value calls transType on the type of the value;
\* fi counts the calls
TransTypeCall ==
  /\ pc = "types" /\ fi < MaxCalls
  /\ \E T \in DOMAIN BM.types : \E ub \in {"crash", "goes on"} :
       LET st == TransType(TypeEngine, T, ub) IN
       IF st.abort # ""
       THEN pc' = st.abort /\ UNCHANGED <<fi, made, typeVars>>
       ELSE /\ TypeMap' = st.TM
            /\ made' = st.made
            /\ Returned' = Put(Returned, T, IF T \in DOMAIN Returned
                                            THEN Returned[T] \cup {st.v}
                                            ELSE {st.v})
            /\ fi' = fi + 1
            /\ pc' = pc
  /\ UNCHANGED <<BM, NDEBUG, runVars, dbgVars>>

\* the translation ends when the type of every value has been translated
TransTypeEnd ==
  /\ pc = "types"
  /\ \A T \in DOMAIN BM.types : T \in DOMAIN Returned
  /\ pc' = "translated"
  /\ UNCHANGED <<BM, NDEBUG, fi, made, typeVars, runVars, dbgVars>>

NextType == TransTypeCall \/ TransTypeEnd

SpecType == InitType /\ [][NextType]_vars

\* ------------------------------------------------------------------------
\* Properties of the placeholder protocol
\* ------------------------------------------------------------------------

\* the global variables of the module whose name starts with "placeholder."
PlaceholderGlobals(Mod) ==
  {Mod.Globals[i].h : i \in {k \in DOMAIN Mod.Globals :
                               Mod.Globals[k].name.prefix = kPlaceholderPrefix}}


\* the defining instruction of bv has been emitted
Emitted(mk, bv) == Get0(mk, <<"inst", bv>>) > 0

\* C1: after translate() has returned true, the module holds no global
\* variable named placeholder.* and no load of such a global.
C1_PlaceholderLiveness ==
  ret = "true" =>
    /\ PlaceholderGlobals(M) = {}
    /\ \A h \in DOMAIN M.Insts :
         Attached(M, h) /\ M.Insts[h].opc = "load" =>
           M.Insts[h].ops[1].k # "gv"

\* C2: when mapValue(BV, V) finds a placeholder load LD as the entry of BV,
\* every operand that was LD is V afterwards, at the same position, nothing
\* uses LD any more, LD is in no block, its global is out of the module and
\* ValueMap[BV] is V.  mapValue is called with the instruction just emitted
\* for BV.
C2_Replaces(bv) ==
  LET LD == ValueMap[bv]
      Placeholder == M.Insts[LD].ops[1]
      V == Handle("inst", bv, Get0(made', <<"inst", bv>>))
  IN  /\ \A h \in DOMAIN M.Insts : \A i \in DOMAIN M.Insts[h].ops :
           M.Insts[h].ops[i] = LD /\ h # LD => M'.Insts[h].ops[i] = V
      /\ Users(M', LD) = {}
      /\ ~Attached(M', LD)
      /\ M'.Insts[LD].parent = NULL
      /\ Placeholder \notin {M'.Globals[i].h : i \in DOMAIN M'.Globals}
      /\ V \in DOMAIN M'.Insts
      /\ ValueMap'[bv] = V

C2_MapValueReplacesPlaceholder ==
  [][\A bv \in DOMAIN ValueMap :
       (IsPlaceholderLoad(M, ValueMap[bv])
          /\ Get0(made', <<"inst", bv>>) > Get0(made, <<"inst", bv>>))
       => C2_Replaces(bv)]_vars

\* a PHI took the placeholder of a value defined after it, and the value
\* has been translated since: the PHI now has the real instruction
C2_Witness ==
  \E bv \in DOMAIN PlaceholderMap :
    /\ Emitted(made, bv)
    /\ ~Attached(M, PlaceholderMap[bv])
    /\ \E h \in Users(M, ValueMap[bv]) :
         /\ M.Insts[h].opc = "phi"
         /\ h.bv[3] < bv[3]
         /\ M.Insts[h].ops[1] = ValueMap[bv]

\* C3: every value in PlaceholderMap has a placeholder load as its ValueMap
\* entry, and its defining instruction has not been translated yet.
C3_PlaceholderMapOutstanding ==
  \A bv \in DOMAIN PlaceholderMap :
    /\ bv \in DOMAIN ValueMap
    /\ IsPlaceholderLoad(M, ValueMap[bv])
    /\ ~Emitted(made, bv)

\* C4: an entry of ValueMap that is not a placeholder load is never
\* overwritten, the assertion of mapValue never fails, and no value is
\* emitted twice as an instruction, function, block or global variable.
C4_MappedOnce ==
  [][/\ \A bv \in DOMAIN ValueMap :
          ~IsPlaceholderLoad(M, ValueMap[bv]) =>
            bv \in DOMAIN ValueMap' /\ ValueMap'[bv] = ValueMap[bv]
     /\ pc' # kTranslatedTwice
     /\ \A k \in DOMAIN made' :
          k[1] \in {"inst", "func", "bb", "global"} => made'[k] <= 1]_vars

\* a value that had a placeholder has been translated, once, and the run
\* has come to its end
C4_Witness ==
  /\ pc = "done"
  /\ \E bv \in DOMAIN PlaceholderMap :
       /\ made[<<"inst", bv>>] = 1
       /\ ValueMap[bv] = Handle("inst", bv, 1)
       /\ Users(M, ValueMap[bv]) # {}

\* ------------------------------------------------------------------------
\* Properties of the pipeline: translate() and ReadSPRV
\* ------------------------------------------------------------------------
StageOrder ==
  <<"addressing", "vars", "funcs", "kernelmd", "fpcontract", "srclang",
    "srcext", "compileropt", "builtinvars", "postprocess">>

\* the stages that have something to do for module BM, in order: the loops
\* over the variables and over the functions may have no iteration
StagesOf ==
  SelectSeq(StageOrder,
            LAMBDA s : /\ s = "vars" => Len(BM.vars) > 0
                       /\ s = "funcs" => NumFuncs > 0)

\* stage s has done all its work
StageComplete(s) ==
  CASE s = "vars" ->
         \A v \in DOMAIN BM.vars :
            BM.vars[v].sc # "Function" => VarV(v) \in DOMAIN ValueMap
    [] s = "funcs" ->
         /\ stack = <<>>
         /\ \A f \in 1..NumFuncs : FuncV(f) \in DOMAIN FuncMap
    [] OTHER -> TRUE

\* C6: a stage starts only when it is the next one in the fixed order, the
\* stages before it have completed and none has failed; translate() returns
\* true only after the last stage; a stage that reports an error makes it
\* return false, and then no stage starts and the module is left as it is.
C6_StageOrder ==
  [][/\ stages' # stages =>
          /\ Len(stages') = Len(stages) + 1
          /\ stages' = SubSeq(StagesOf, 1, Len(stages'))
          /\ \A i \in DOMAIN stages : StageComplete(stages[i])
          /\ ret = "none"
     /\ ret' = "true" => stages' = StagesOf
     /\ ErrorLog' # "Success" => ret' = "false"
     /\ ret = "false" => stages' = stages /\ M' = M /\ ret' = "false"]_vars

\* a run through every stage, with module-scope variables and functions
C6_Witness ==
  /\ ret = "true"
  /\ stages = StageOrder
  /\ \E v \in DOMAIN BM.vars : VarV(v) \in DOMAIN ValueMap

\* C7: ReadSPRV returns false exactly when translate() returned false; then
\* ErrMsg is the error of the module's error log and M is null; when it
\* returns true M is the module.
C7_ReadSPRVResult ==
  pc = "done" =>
    /\ Succeed = (ret # "false")
    /\ ret \in {"true", "false"}
    /\ ~Succeed => ErrMsg = ErrorLog /\ ErrMsg # "Success" /\ Mptr = "null"
    /\ Succeed => Mptr = "module"

\* ReadSPRV has returned false for a module with an invalid addressing model
C7_Witness ==
  /\ pc = "done"
  /\ ~Succeed
  /\ BM.am = "Invalid"
  /\ Mptr = "null"

\* C19: when ReadSPRV has returned with DbgSaveTmpLLVM set and the file
\* could be opened, the file holds the emitted module, also when the
\* translation failed; with the flag not set nothing is written.
C19_DebugDump ==
  pc = "done" =>
    /\ DbgSaveTmpLLVM /\ CanOpen => TmpFile = <<M>>
    /\ ~DbgSaveTmpLLVM => TmpFile = kNoFile

\* the module holds an input that the translator does not accept
Malformed ==
  \/ BM.am \notin {"Physical32", "Physical64", "Logical"}
  \/ \E f \in 1..NumFuncs : \E j \in 1..NumInsts(f) :
        OpCodeOf(InstV(f, j)) = "OpNop"

\* the run is over: ReadSPRV has returned or an assertion ended the process
RunOver == pc \in {"done", kTranslatedTwice, kNotImplemented}

\* C8: for a malformed module, translate() returns false with an error in
\* the error log and ReadSPRV leaves M null.
C8_MalformedAborts ==
  (Malformed /\ RunOver) =>
    /\ pc = "done"
    /\ ret = "false"
    /\ ErrorLog # "Success"
    /\ Mptr = "null"

\* C14: once transAddressingModel has run, the target triple and the data
\* layout of the module are the 32-bit SPIR strings for Physical32, the
\* 64-bit ones for Physical64 and unset for Logical, which succeeds; any
\* other addressing model leaves both unset and translate() returns false.
C14_AddressingModel ==
  "addressing" \in Range(stages) =>
    CASE BM.am = "Physical32" ->
           /\ M.TargetTriple = "spir-unknown-unknown"
           /\ M.DataLayout = SPIR_DATALAYOUT32
           /\ ret # "false"
      [] BM.am = "Physical64" ->
           /\ M.TargetTriple = "spir64-unknown-unknown"
           /\ M.DataLayout = SPIR_DATALAYOUT64
           /\ ret # "false"
      [] BM.am = "Logical" ->
           /\ M.TargetTriple = "" /\ M.DataLayout = ""
           /\ ret # "false"
      [] OTHER ->
           /\ M.TargetTriple = "" /\ M.DataLayout = ""
           /\ ret = "false" /\ ErrorLog = "InvalidAddressingModel"

\* a Logical module has been translated to its end and ReadSPRV has
\* returned true
C14_Witness ==
  /\ pc = "done" /\ Succeed
  /\ BM.am = "Logical"
  /\ M.TargetTriple = ""

\* ------------------------------------------------------------------------
\* Properties of the emitted functions and of the kernel metadata
\* ------------------------------------------------------------------------
\* the indexes of the functions of BM that satisfy P, in module order
FunctionsWhere(P(_)) == SelectSeq([f \in 1..NumFuncs |-> f], P)

\* the functions that the operands of opencl.kernels name, in order
KernelsListed ==
  [i \in DOMAIN M.NamedMD[SPIR_MD_KERNELS] |->
     M.NamedMD[SPIR_MD_KERNELS][i][1].val]

AfterKernelMetadata == "kernelmd" \in Range(stages)

KernelNodes == M.NamedMD[SPIR_MD_KERNELS]
KernelOf(node) == BM.funcs[node[1].val.bv[2]]

\* what heads the i-th operand of a kernel node
HeaderOf(node, i) == IF i = 1 THEN node[1].tag ELSE node[i][1]

\* C12: the operands of the node of a kernel are, in this order: the
\* function; the five argument nodes; kernel_arg_name exactly when the
\* compile flag contains -cl-kernel-arg-info and every argument has a name;
\* reqd_work_group_size, work_group_size_hint and vec_type_hint, each
\* exactly when the kernel has the execution mode.
C12_KernelMDOperandOrder ==
  AfterKernelMetadata =>
    \A n \in DOMAIN KernelNodes :
      LET node == KernelNodes[n]
          BF == KernelOf(node)
          named == /\ \E i \in DOMAIN BM.flags :
                        BM.flags[i] = "-cl-kernel-arg-info"
                   /\ \A i \in DOMAIN BF.params : BF.params[i].name # ""
          expected ==
            <<"function", "kernel_arg_addr_space", "kernel_arg_access_qual",
              "kernel_arg_type", "kernel_arg_type_qual",
              "kernel_arg_base_type">>
              \o (IF named THEN <<"kernel_arg_name">> ELSE <<>>)
              \o (IF "LocalSize" \in BF.modes
                  THEN <<"reqd_work_group_size">> ELSE <<>>)
              \o (IF "LocalSizeHint" \in BF.modes
                  THEN <<"work_group_size_hint">> ELSE <<>>)
              \o (IF "VecTypeHint" \in BF.modes
                  THEN <<"vec_type_hint">> ELSE <<>>)
      IN  [i \in DOMAIN node |-> HeaderOf(node, i)] = expected

\* the node of a kernel with named arguments, -cl-kernel-arg-info and the
\* three execution modes has been built: ten operands
C12_Witness ==
  /\ AfterKernelMetadata
  /\ \E n \in DOMAIN KernelNodes :
       /\ Len(KernelNodes[n]) = 10
       /\ KernelOf(KernelNodes[n]).params # <<>>
       /\ HeaderOf(KernelNodes[n], 7) = "kernel_arg_name"
       /\ HeaderOf(KernelNodes[n], 10) = "vec_type_hint"

\* the headers of the nodes that addOCLKernelArgumentMetadata builds
ArgumentHeaders ==
  {"kernel_arg_addr_space", "kernel_arg_access_qual", "kernel_arg_type",
   "kernel_arg_type_qual", "kernel_arg_base_type", "kernel_arg_name"}

\* C13: every argument node of a kernel has 1 + arg_count operands, the
\* header and then one operand per argument, in the order of the arguments.
C13_ArgumentNodeArity ==
  AfterKernelMetadata =>
    \A n \in DOMAIN KernelNodes :
      LET node == KernelNodes[n]
          BF == KernelOf(node)
      IN  \A i \in 2..Len(node) :
            node[i][1] \in ArgumentHeaders =>
              /\ Len(node[i]) = 1 + Len(BF.params)
              /\ node[i][1] = "kernel_arg_name" =>
                   \A a \in DOMAIN BF.params :
                      node[i][a + 1] = BF.params[a].name
              /\ node[i][1] = "kernel_arg_type" =>
                   \A a \in DOMAIN BF.params :
                      node[i][a + 1] = <<"type name", BF.params[a].ty>>

\* the nodes of a kernel with two arguments of different types, among them
\* kernel_arg_name, and those of a kernel without arguments
C13_Witness ==
  /\ AfterKernelMetadata
  /\ \E n \in DOMAIN KernelNodes :
       LET node == KernelNodes[n]
           BF == KernelOf(node)
       IN  \/ /\ Len(BF.params) = 2
              /\ BF.params[1].ty # BF.params[2].ty
              /\ Len(node) > 6 /\ node[7] = <<"kernel_arg_name", "a", "b">>
           \/ /\ BF.params = <<>>
              /\ node[2] = <<"kernel_arg_addr_space">>
              /\ Len(node) > 6 /\ node[7] = <<"kernel_arg_name">>

\* the address space number of a storage class
AddressSpaceOf(sc) ==
  CASE sc = "Function" -> 0
    [] sc = "CrossWorkgroup" -> 1
    [] sc = "UniformConstant" -> 2
    [] sc = "Workgroup" -> 3
    [] sc = "Generic" -> 4

\* C15: a lowered pointer type and a lowered module-scope variable are in
\* the address space of their storage class (Function 0, CrossWorkgroup 1,
\* UniformConstant 2, Workgroup 3, Generic 4), and the kernel_arg_addr_space
\* entry of a pointer argument is that number.
C15_AddressSpaces ==
  /\ \A T \in DOMAIN TypeMap :
       BM.types[T].op = "OpTypePointer" =>
         /\ TypeMap[T].k = "pointer"
         /\ TypeMap[T].as = AddressSpaceOf(BM.types[T].sc)
  /\ \A g \in DOMAIN M.Globals :
       M.Globals[g].h.k = "global" =>
         M.Globals[g].as = AddressSpaceOf(BM.vars[M.Globals[g].h.bv[3]].sc)
  /\ AfterKernelMetadata =>
       \A n \in DOMAIN KernelNodes :
         LET BF == KernelOf(KernelNodes[n]) IN
         \A a \in DOMAIN BF.params :
           BM.types[BF.params[a].ty].op = "OpTypePointer" =>
             /\ KernelNodes[n][2][a + 1] =
                  AddressSpaceOf(BM.types[BF.params[a].ty].sc)
             /\ KernelNodes[n][2][a + 1] = TypeMap[BF.params[a].ty].as

\* a kernel with a Workgroup pointer and a Generic pointer argument has its
\* metadata: the pointer types are lowered to address spaces 3 and 4
C15_Witness ==
  /\ AfterKernelMetadata
  /\ \E n \in DOMAIN KernelNodes :
       /\ Len(KernelNodes[n][2]) = 3
       /\ KernelNodes[n][2][2] = 3 /\ KernelNodes[n][2][3] = 4
       /\ \E T \in DOMAIN TypeMap : TypeMap[T] = PointerTy(IntTy(32), 3)

\* the IR function made for the f-th function of BM
IRFunction(f) == M.Func[FuncMap[FuncV(f)]]

C5_TransTypeMemoized ==
  \A T \in DOMAIN BM.types :
    /\ T \in DOMAIN Returned => Cardinality(Returned[T]) = 1
    /\ Get0(made, <<"body", T>>) <= 1
    /\ Get0(made, <<"struct", T>>) <= 1
    /\ pc = "translated" => T \in DOMAIN TypeMap

\* ------------------------------------------------------------------------
\* The suffix the name of the memory copy is said to have for a pointer
\* lowered to address space as
PointerSuffixOf(as) == IF as = 0 THEN ".p0i8" ELSE ".p1i8"

\* the OpCopyMemorySized instructions whose call has been emitted
MemCopiesEmitted ==
  {BV \in DOMAIN ValueMap :
     BV[1] = "inst" /\ OpCodeOf(BV) = "OpCopyMemorySized"}

\* C20: the call emitted for an OpCopyMemorySized between pointers lowered
\* to the address spaces 0 and 1 calls the function named llvm.memcpy
\* followed by .p0i8 or .p1i8 for the address space of the destination, the
\* same for the source, and .i32 for a 32-bit size or .i64 otherwise; its
\* arguments are the destination, the source, the size, the alignment as an
\* i32 and the volatile flag as an i1, in that order.
C20_MemCpyCallee ==
  \A BV \in MemCopiesEmitted :
     LET BC == BM.funcs[BV[2]].insts[BV[3]]
         Call == M.Insts[ValueMap[BV]]
     IN  {AddrSpaceRmap(BC.lit.trg), AddrSpaceRmap(BC.lit.src)} \subseteq {0, 1}
           => /\ Call.opc = "call"
              /\ M.Func[Call.ops[1]].name =
                   [prefix |-> "llvm.", base |-> <<"memcpy", 0, 0>>,
                    suffix |-> <<PointerSuffixOf(AddrSpaceRmap(BC.lit.trg)),
                                 PointerSuffixOf(AddrSpaceRmap(BC.lit.src)),
                                 IF BC.lit.width = 32 THEN ".i32"
                                 ELSE ".i64">>]
              /\ Tail(Call.ops) =
                   <<ValueMap[BC.ops[1]], ValueMap[BC.ops[2]],
                     ValueMap[BC.ops[3]],
                     ConstantInt("i32", BC.lit.align),
                     ConstantInt("i1", BC.lit.volatile)>>

\* ------------------------------------------------------------------------
\* The loads of the globals registered in BuiltinGVMap, the instructions
\* that stand for a call of the builtin (the loads of a scalar variable, the
\* extracts of a load of a vector variable), and all of them
GlobalOf(Mod, GV) ==
  Mod.Globals[CHOOSE i \in DOMAIN Mod.Globals : Mod.Globals[i].h = GV]
BuiltinLoads(Mod) ==
  {L \in DOMAIN Mod.Insts :
     /\ Mod.Insts[L].opc = "load"
     /\ Mod.Insts[L].ops[1] \in DOMAIN BuiltinGVMap}
Demoted(Mod) ==
  {L \in BuiltinLoads(Mod) : ~GlobalOf(Mod, Mod.Insts[L].ops[1]).vec}
    \cup {E \in DOMAIN Mod.Insts :
            /\ Mod.Insts[E].opc = "extractelement"
            /\ Mod.Insts[E].ops[1] \in BuiltinLoads(Mod)
            /\ GlobalOf(Mod, Mod.Insts[Mod.Insts[E].ops[1]].ops[1]).vec}
Dead(Mod) == BuiltinLoads(Mod) \cup Demoted(Mod)

\* the builtin variable instruction I of Demoted(Mod) reads
BuiltinGlobalOf(Mod, I) ==
  IF Mod.Insts[I].opc = "load" THEN Mod.Insts[I].ops[1]
  ELSE Mod.Insts[Mod.Insts[I].ops[1]].ops[1]

\* the instruction that is, after the step, at the place instruction I of
\* Demoted(M) had in its block, the loads that only fed extracts being gone
AtPlaceOf(I) ==
  LET b == M.Insts[I].parent
      k == CHOOSE i \in DOMAIN M.Blocks[b] : M.Blocks[b][i] = I
      n == Cardinality({i \in 1..k :
                          M.Blocks[b][i] \notin Dead(M) \ Demoted(M)})
  IN  IF n \in DOMAIN M'.Blocks[b] THEN M'.Blocks[b][n] ELSE NULL

\* C16: the step of transOCLBuiltinsFromVariables takes every global
\* registered in BuiltinGVMap out of the module; puts, at the place of every
\* load of a scalar builtin global, a call of the builtin without arguments,
\* and at the place of every extractelement of a load of a vector builtin
\* global, a call of the builtin with the index of the extract as its one
\* argument; makes every user of such a load or extract use the call; emits
\* as many calls as there were such loads and extracts; and leaves those
\* loads and extracts detached.
C16_BuiltinVariablesDemoted ==
  [][(pc = "builtinvars" /\ pc' = "postprocess") =>
       /\ \A i \in DOMAIN M'.Globals :
             M'.Globals[i].h \notin DOMAIN BuiltinGVMap
       /\ \A I \in Dead(M) :
             /\ M'.Insts[I].parent = NULL
             /\ ~Attached(M', I)
             /\ Users(M', I) = {}
       /\ \A I \in Demoted(M) :
             LET Call == AtPlaceOf(I)
                 GV == BuiltinGlobalOf(M, I)
                 IsVec == GlobalOf(M, GV).vec
             IN  /\ Call \in DOMAIN M'.Insts \ DOMAIN M.Insts
                 /\ M'.Insts[Call].opc = "call"
                 /\ M'.Insts[Call].ops[1] \in Range(M'.Functions)
                 /\ M'.Func[M'.Insts[Call].ops[1]].name =
                      MangledBuiltinName(BuiltinGVMap[GV], IsVec)
                 /\ Len(M'.Func[M'.Insts[Call].ops[1]].params) =
                      IF IsVec THEN 1 ELSE 0
                 /\ Len(M'.Insts[Call].ops) = IF IsVec THEN 2 ELSE 1
                 /\ IsVec =>
                      M'.Insts[Call].ops[2] =
                        IF M.Insts[I].ops[2] \in Demoted(M)
                        THEN AtPlaceOf(M.Insts[I].ops[2])
                        ELSE M.Insts[I].ops[2]
                 /\ \A U \in Users(M, I) \ Dead(M) :
                       \A i \in DOMAIN M.Insts[U].ops :
                          M.Insts[U].ops[i] = I => M'.Insts[U].ops[i] = Call
       /\ Cardinality(DOMAIN M'.Insts \ DOMAIN M.Insts)
            = Cardinality(Demoted(M))
       /\ \A b \in DOMAIN M.Blocks :
             Len(M'.Blocks[b]) =
               Cardinality({i \in DOMAIN M.Blocks[b] :
                              M.Blocks[b][i] \notin Dead(M) \ Demoted(M)})
    ]_vars

\* The stage has run on a module where an extract of a load of a vector
\* builtin global had a user: the user now uses a call of the builtin with
\* one argument, and the global, the load and the extract are gone.
C16_Witness ==
  /\ pc = "postprocess"
  /\ BuiltinGVMap # EmptyMap
  /\ \E Call \in DOMAIN M.Insts :
        /\ M.Insts[Call].opc = "call"
        /\ M.Func[M.Insts[Call].ops[1]].name.prefix = "_Z"
        /\ Len(M.Insts[Call].ops) = 2
        /\ \E U \in Users(M, Call) : M.Insts[U].opc = "not"
  /\ \E L \in DOMAIN M.Insts :
        M.Insts[L].opc = "load" /\ M.Insts[L].parent = NULL

\* ------------------------------------------------------------------------
\* The declarations of Mod that postProcessOCL takes as OpenCL builtins
\* returning a struct, their call sites, and the sites whose result is
\* consumed by a store
StructBuiltins(Mod) ==
  {F \in Range(Mod.Functions) :
     /\ Mod.Func[F].blocks = <<>>
     /\ Mod.Func[F].ret.k = "struct"
     /\ OclIsBuiltin(Mod.Func[F].name)}
CallSitesOf(Mod, F) ==
  {CI \in DOMAIN Mod.Insts :
     /\ Mod.Insts[CI].opc = "call"
     /\ Mod.Insts[CI].ops[1] = F
     /\ Attached(Mod, CI)}
IsStored(Mod, CI) ==
  /\ FirstUser(Mod, CI) # NULL
  /\ Mod.Insts[FirstUser(Mod, CI)].opc = "store"
  /\ Mod.Insts[FirstUser(Mod, CI)].ops[1] = CI
ConsumingStores(Mod) ==
  {FirstUser(Mod, CI) :
     CI \in {c \in UNION {CallSitesOf(Mod, F) : F \in StructBuiltins(Mod)} :
               IsStored(Mod, c)}}

\* the instruction that is, after the step, at the place the call CI had in
\* its block, the consuming stores being gone
SretCallAt(CI) ==
  LET b == M.Insts[CI].parent
      k == CHOOSE i \in DOMAIN M.Blocks[b] : M.Blocks[b][i] = CI
      n == Cardinality({i \in 1..k : M.Blocks[b][i] \notin ConsumingStores(M)})
  IN  IF n \in DOMAIN M'.Blocks[b] THEN M'.Blocks[b][n] ELSE NULL

\* C17: the step of postProcessOCL, for every declaration it takes as an
\* OpenCL builtin that returns a struct: renames it with .old appended and
\* takes it out of the module; and, at each of its call sites whose result
\* a store consumed, puts in the place of the call a call of a function of
\* the module that has the original name, returns void and has the
\* parameters of the declaration after a pointer to its return type in
\* address space 0, with the destination of the store as first argument and
\* then the arguments of the old call in their order; the store and the old
\* call are detached.
C17_StructReturnRewritten ==
  [][(pc = "postprocess" /\ pc' = "translated") =>
       \A F \in StructBuiltins(M) :
          /\ M'.Func[F].name =
               [M.Func[F].name EXCEPT !.suffix = Append(@, ".old")]
          /\ F \notin Range(M'.Functions)
          /\ \A CI \in CallSitesOf(M, F) :
                IsStored(M, CI) =>
                  LET ST == FirstUser(M, CI)
                      Call == SretCallAt(CI)
                      newF == M'.Insts[Call].ops[1]
                  IN  /\ Call \in DOMAIN M'.Insts \ DOMAIN M.Insts
                      /\ M'.Insts[Call].opc = "call"
                      /\ newF \in Range(M'.Functions)
                      /\ M'.Func[newF].name = M.Func[F].name
                      /\ M'.Func[newF].ret = VoidTy
                      /\ M'.Func[newF].params =
                           <<PointerTy(M.Func[F].ret, 0)>> \o M.Func[F].params
                      /\ Tail(M'.Insts[Call].ops) =
                           <<M.Insts[ST].ops[2]>> \o Tail(M.Insts[CI].ops)
                      /\ M'.Insts[ST].parent = NULL /\ ~Attached(M', ST)
                      /\ M'.Insts[CI].parent = NULL /\ ~Attached(M', CI)
    ]_vars

\* postProcessOCL has rewritten two call sites of one struct-returning
\* builtin: two calls in the blocks call one void function whose first
\* parameter points to a struct, with the stored-to variable as first
\* argument, and a function renamed .old is out of the module.
C17_Witness ==
  /\ pc = "translated" /\ ret = "true"
  /\ \E F \in DOMAIN M.Func :
        /\ M.Func[F].name.suffix = <<".old">>
        /\ F \notin Range(M.Functions)
  /\ \E C1 \in DOMAIN M.Insts, C2 \in DOMAIN M.Insts :
        /\ C1 # C2
        /\ \A C \in {C1, C2} :
              /\ Attached(M, C)
              /\ M.Insts[C].opc = "call"
              /\ M.Func[M.Insts[C].ops[1]].ret = VoidTy
              /\ Len(M.Func[M.Insts[C].ops[1]].params) = 2
              /\ M.Func[M.Insts[C].ops[1]].params[1].k = "pointer"
              /\ M.Insts[C].ops[2] = ValueMap[VarV(1)]
        /\ M.Insts[C1].ops[1] = M.Insts[C2].ops[1]

\* a call site of a struct-returning builtin that postProcessOCL cannot
\* rewrite: its result has no user, or its first user is not a store
Unrewritable(Mod) ==
  \E F \in StructBuiltins(Mod) :
     \E CI \in CallSitesOf(Mod, F) : ~IsStored(Mod, CI)

\* C18: when the module has a call of a struct-returning builtin whose
\* result no store consumes, postProcessOCL reports failure and translate()
\* returns false, after which ReadSPRV destroys the module.
C18_UnrewritableIsFatal ==
  [][(pc = "postprocess" /\ Unrewritable(M)) =>
       (pc' = "translated" /\ ret' = "false")]_vars

Converted ==
  {bv \in {InstV(f, j) : f \in 1..NumFuncs, j \in 1..MaxInsts + 2} :
     /\ bv[3] <= NumInsts(bv[2])
     /\ IsCvtOpCode(BM.funcs[bv[2]].insts[bv[3]].op)
     /\ bv \in DOMAIN ValueMap
     /\ ~IsPlaceholderLoad(M, ValueMap[bv])}

\* the name the contract gives the builtin of conversion I
ConvertNameOf(I) ==
  (IF I.op \in {"OpConvertUToF", "OpUConvert", "OpSatConvertUToS"}
   THEN "uconvert_" ELSE "convert_")
    \o (IF I.lit.ty = "int" /\ I.op \in {"OpConvertFToU", "OpUConvert",
                                         "OpSatConvertSToU"}
        THEN "uint" ELSE I.lit.ty)
    \o (CASE I.lit.sat /\ I.lit.rounding = "rtz" -> "_sat_rtz"
          [] I.lit.sat /\ I.lit.rounding = "" -> "_sat"
          [] ~I.lit.sat /\ I.lit.rounding = "rtz" -> "_rtz"
          [] OTHER -> "")

DirectCasts ==
  {"trunc", "zext", "sext", "fptoui", "fptosi", "uitofp", "sitofp",
   "fptrunc", "fpext", "bitcast", "addrspacecast"}

\* C21: a translated conversion that carries an FP rounding mode or the
\* saturated-conversion flag is a call of the builtin named convert_<dst>,
\* with u in front when the source is unsigned, then _sat when saturated,
\* then _<rounding> when it has a rounding mode, and is no cast; a
\* conversion with neither is a direct cast and no call.
C21_ConversionLowering ==
  \A bv \in Converted :
     LET I == BM.funcs[bv[2]].insts[bv[3]]
         X == M.Insts[ValueMap[bv]]
     IN  IF I.lit.rounding # "" \/ I.lit.sat
         THEN /\ X.opc = "call"
              /\ M.Func[X.ops[1]].name.prefix = "_Z"
              /\ M.Func[X.ops[1]].name.base[1] = ConvertNameOf(I)
         ELSE X.opc \in DirectCasts

\* ConvertFToU with saturation and rtz has become a call of
\* convert_uint_sat_rtz, and a conversion with neither a cast
C21_Witness ==
  /\ \E bv \in Converted :
        /\ BM.funcs[bv[2]].insts[bv[3]].op = "OpConvertFToU"
        /\ BM.funcs[bv[2]].insts[bv[3]].lit.sat
        /\ BM.funcs[bv[2]].insts[bv[3]].lit.rounding = "rtz"
        /\ M.Insts[ValueMap[bv]].opc = "call"
        /\ M.Func[M.Insts[ValueMap[bv]].ops[1]].name.base[1]
             = "convert_uint_sat_rtz"
  /\ \E bv \in Converted :
        /\ ~BM.funcs[bv[2]].insts[bv[3]].lit.sat
        /\ BM.funcs[bv[2]].insts[bv[3]].lit.rounding = ""
        /\ M.Insts[ValueMap[bv]].opc \in DirectCasts

\* C22: in the module of a run whose translate() returned true, the named
\* metadata opencl.enable.FP_CONTRACT is present if and only if no kernel
\* entry point of the input declares ContractionOff; the mode on a function
\* that is not a kernel does not count.
C22_FPContract ==
  ret = "true" =>
    (SPIR_MD_ENABLE_FP_CONTRACT \in DOMAIN M.NamedMD
       <=> ~\E f \in 1..NumFuncs :
              BM.funcs[f].kernel /\ BM.funcs[f].contractionOff)

\* translate() returned true on a module where only a function that is not
\* a kernel declares ContractionOff, and the metadata is there
C22_Witness ==
  /\ ret = "true"
  /\ \E f \in 1..NumFuncs : ~BM.funcs[f].kernel /\ BM.funcs[f].contractionOff
  /\ \E f \in 1..NumFuncs : BM.funcs[f].kernel /\ ~BM.funcs[f].contractionOff
  /\ SPIR_MD_ENABLE_FP_CONTRACT \in DOMAIN M.NamedMD

\* an IR object has been made for an instruction of function f: the
\* instruction itself or a placeholder for it
InstructionsStarted(f) ==
  \E j \in 1..NumInsts(f), k \in {"inst", "gv", "ld", "memcpy"} :
     Get0(made, <<k, InstV(f, j)>>) > 0

\* the branches of the module and their targets
BranchTargets ==
  {M.Insts[X].ops[1] : X \in {Y \in DOMAIN M.Insts : M.Insts[Y].opc = "br"}}

\* C23: a function that has an IR object for one of its instructions has,
\* for every one of its SPIR-V blocks, one IR basic block, made once, in
\* its block list at the position of the SPIR-V block; a label is never
\* mapped to a placeholder, and the target of a branch is a basic block.
C23_BlocksBeforeInstructions ==
  /\ \A f \in 1..NumFuncs :
        InstructionsStarted(f) =>
          /\ FuncV(f) \in DOMAIN FuncMap
          /\ \A b \in 1..NumBasicBlock(f) : LabelV(f, b) \in DOMAIN ValueMap
          /\ M.Func[FuncMap[FuncV(f)]].blocks
               = [b \in 1..NumBasicBlock(f) |-> ValueMap[LabelV(f, b)]]
  /\ \A bv \in DOMAIN ValueMap :
        bv[1] = "label" =>
          /\ ValueMap[bv].k = "bb"
          /\ bv \notin DOMAIN PlaceholderMap
          /\ Get0(made, <<"bb", bv>>) = 1
          /\ Get0(made, <<"ld", bv>>) = 0
  /\ \A B \in BranchTargets : B.k = "bb" /\ B \in DOMAIN M.Blocks

\* a function of two blocks whose first block branches to the second one,
\* which comes after it, and the branch is in the module
C23_Witness ==
  \E f \in 1..NumFuncs :
     /\ NumBasicBlock(f) = 2
     /\ InstructionsStarted(f)
     /\ InstV(f, 1) \in DOMAIN ValueMap
     /\ ValueMap[InstV(f, 1)] \in DOMAIN M.Insts
     /\ M.Insts[ValueMap[InstV(f, 1)]].opc = "br"
     /\ M.Insts[ValueMap[InstV(f, 1)]].ops = <<ValueMap[LabelV(f, 2)]>>
     /\ M.Insts[ValueMap[InstV(f, 1)]].parent = ValueMap[LabelV(f, 1)]

\* the IR attribute of a SPIR-V function parameter attribute
IRAttributeOf(Kind) ==
  CASE Kind = "Zext" -> "ZExt"
    [] Kind = "Sext" -> "SExt"
    [] Kind = "ByVal" -> "ByVal"
    [] Kind = "Sret" -> "StructRet"
    [] Kind = "NoAlias" -> "NoAlias"
    [] Kind = "NoCapture" -> "NoCapture"

\* C24: every parameter of a translated function, named or not, is in
\* ValueMap and has, at its index, exactly the IR attributes of its SPIR-V
\* parameter attributes other than Const.
C24_ParameterAttributes ==
  \A f \in 1..NumFuncs :
     FuncV(f) \in DOMAIN FuncMap =>
       \A i \in DOMAIN BM.funcs[f].params :
          /\ ArgV(f, i) \in DOMAIN ValueMap
          /\ M.Func[FuncMap[FuncV(f)]].argattrs[i] =
               {IRAttributeOf(Kind) :
                  Kind \in Range(BM.funcs[f].params[i].attrs) \ {"Const"}}

\* the type qualifiers that apply to a parameter
QualifiersOf(Arg) ==
  (IF Arg.volatile THEN {"volatile"} ELSE {})
    \cup (IF "NoAlias" \in Range(Arg.attrs) THEN {"restrict"} ELSE {})
    \cup (IF "Const" \in Range(Arg.attrs) THEN {"const"} ELSE {})

RECURSIVE SpaceSeparated(_)
\* the strings made of the words of Q, each once, separated by one space
SpaceSeparated(Q) ==
  IF Q = {} THEN {""}
  ELSE UNION {{IF rest = "" THEN q ELSE (q \o " ") \o rest :
                 rest \in SpaceSeparated(Q \ {q})} : q \in Q}

\* C25: the kernel_arg_type_qual string of every argument of every kernel
\* is made of exactly the qualifiers that apply to the argument, separated
\* by single spaces, with no other space; it is empty when none applies.
C25_TypeQualString ==
  AfterKernelMetadata =>
    \A n \in DOMAIN KernelNodes :
       \A a \in DOMAIN KernelOf(KernelNodes[n]).params :
          /\ KernelNodes[n][5][1] = "kernel_arg_type_qual"
          /\ KernelNodes[n][5][a + 1]
               \in SpaceSeparated(QualifiersOf(KernelOf(KernelNodes[n]).params[a]))

\* the instructions of the input that have been lowered to a call of an
\* external symbol: builtin instructions, conversions with a rounding mode
\* or saturation, and memory copies
LoweredToCalls ==
  {bv \in DOMAIN ValueMap :
     /\ bv[1] = "inst"
     /\ \/ OpCodeOf(bv) \in {"OpBuiltin", "OpCopyMemorySized"}
        \/ IsCvtOpCode(OpCodeOf(bv))
     /\ ValueMap[bv] \in DOMAIN M.Insts
     /\ M.Insts[ValueMap[bv]].opc = "call"}

\* what decides the external symbol and the function type of the call of
\* instruction I: the opcode, the number of operands and, for a memory
\* copy, the address spaces and the width of the size, for a conversion its
\* type, rounding mode and saturation
SymbolOf(I) ==
  <<I.op, Len(I.ops),
    IF I.op = "OpCopyMemorySized"
    THEN <<AddrSpaceRmap(I.lit.trg), AddrSpaceRmap(I.lit.src), I.lit.width>>
    ELSE <<0, 0, 0>>,
    I.lit.ty, I.lit.rounding, I.lit.sat>>

\* C26: the calls emitted for instructions that lower to the same external
\* symbol with the same function type all call one function: the symbol is
\* declared once.
C26_DeclaredOnce ==
  \A x \in LoweredToCalls, y \in LoweredToCalls :
     SymbolOf(BM.funcs[x[2]].insts[x[3]]) = SymbolOf(BM.funcs[y[2]].insts[y[3]])
       => M.Insts[ValueMap[x]].ops[1] = M.Insts[ValueMap[y]].ops[1]

\* the pipe types of the module that transType has lowered
PipesLowered ==
  {T \in DOMAIN TypeMap : BM.types[T].op = "OpTypePipe"}

\* C27: a lowered pipe type is a pointer in the address space Global (1)
\* to an opaque struct, one without a body, named opencl.pipe_t, whatever
\* the type of the pipe.
C27_PipeType ==
  \A T \in PipesLowered :
     /\ TypeMap[T].k = "pointer"
     /\ TypeMap[T].as = 1
     /\ TypeMap[T].elem.k = "struct"
     /\ TypeMap[T].elem.name = "opencl.pipe_t"
     /\ TypeMap[T].elem.opaque
     /\ TypeMap[T].elem.body = <<>>

\* C28: an instruction of the module has the exact flag if and only if it is
\* an arithmetic right shift (ashr); a logical right shift or a left shift
\* never has it.
C28_ExactFlag ==
  \A X \in DOMAIN M.Insts : M.Insts[X].exact <=> M.Insts[X].opc = "ashr"

\* ------------------------------------------------------------------------
\* The early return of transValue
\* ------------------------------------------------------------------------

\* the block transValue is given for the value bv of a function body
BlockFor(bv) ==
  IF bv[1] = "inst" /\ LabelV(bv[2], BlockOf(bv[2], bv[3])) \in DOMAIN ValueMap
  THEN ValueMap[LabelV(bv[2], BlockOf(bv[2], bv[3]))]
  ELSE NULL

\* the placeholder loads made for bv that the module still holds in a block
PlaceholderLoadsOf(bv) ==
  {h \in DOMAIN M.Insts :
     h.k = "ld" /\ h.bv = bv /\ Attached(M, h) /\ IsPlaceholderLoad(M, h)}

\* C29: transValue(BV, F, BB, true) of a value that has a ValueMap entry
\* returns the entry and leaves the whole engine as it is; at most one
\* placeholder global and one placeholder load are ever created for a
\* value, and every use of a placeholder of the value is a use of its
\* ValueMap entry.
C29_PlaceholderHit ==
  /\ \A bv \in DOMAIN ValueMap :
       TransValue(Engine, bv, BlockFor(bv), TRUE)
         = Returning(Engine, ValueMap[bv])
  /\ \A k \in DOMAIN made : k[1] \in {"gv", "ld"} => made[k] <= 1
  /\ \A bv \in DOMAIN PlaceholderMap :
       PlaceholderLoadsOf(bv) \subseteq {ValueMap[bv]}

\* an instruction used twice the value of a later one: both operands are
\* the one placeholder load, which is still the ValueMap entry of the value
C29_Witness ==
  \E bv \in DOMAIN PlaceholderMap :
    /\ IsPlaceholderLoad(M, ValueMap[bv])
    /\ made[<<"ld", bv>>] = 1 /\ made[<<"gv", bv>>] = 1
    /\ \E h \in Users(M, ValueMap[bv]) :
         M.Insts[h].ops = <<ValueMap[bv], ValueMap[bv]>>

\* ------------------------------------------------------------------------
\* Termination of transFunction
\* ------------------------------------------------------------------------

\* the functions whose second pass is running, outermost first
Translating == [i \in DOMAIN stack |-> stack[i].f]

\* the call sites of the module
CallInsts ==
  {InstV(f, j) : f \in 1..NumFuncs, j \in 1..MaxInsts} \cap
  {bv \in UNION {{InstV(f, j) : j \in 1..NumInsts(f)} : f \in 1..NumFuncs} :
     OpCodeOf(bv) = "OpFunctionCall"}

\* the second pass over the body of f starts in this step
BodyStarts(f) ==
  /\ \A i \in DOMAIN stack : stack[i].f # f
  /\ \E i \in DOMAIN stack' : stack'[i].f = f

\* C30: the loop of translate() over the functions comes to its end on
\* every module, recursive calls included.  A function whose body is being
\* translated is in FuncMap, so no function is on the stack of transFunction
\* calls twice; the body of a function is translated only when the function
\* is not yet in FuncMap, so once; no SPIR-V function has two IR functions
\* and mapValue's assertion never fails;
\* and when the loop has ended every function has exactly one IR function
\* and every call site exactly one call, whether the callee was first
\* reached from the loop or from a call.
C30_TransFunctionTerminates ==
  /\ [](/\ \A i \in DOMAIN stack : FuncV(stack[i].f) \in DOMAIN FuncMap
        /\ \A i, j \in DOMAIN stack : i # j => stack[i].f # stack[j].f
        /\ \A f \in 1..NumFuncs : Get0(made, <<"func", FuncV(f)>>) <= 1
        /\ pc # kTranslatedTwice
        /\ pc = "kernelmd" =>
             /\ \A f \in 1..NumFuncs :
                  /\ FuncV(f) \in DOMAIN FuncMap
                  /\ made[<<"func", FuncV(f)>>] = 1
                  /\ FuncMap[FuncV(f)] = Handle("func", FuncV(f), 1)
             /\ \A bv \in CallInsts :
                  /\ made[<<"inst", bv>>] = 1
                  /\ M.Insts[ValueMap[bv]].opc = "call"
                  /\ M.Insts[ValueMap[bv]].ops[1]
                       = FuncMap[FuncV(BM.funcs[bv[2]].insts[bv[3]].callee)])
  /\ [][\A f \in 1..NumFuncs :
          BodyStarts(f) => FuncV(f) \notin DOMAIN FuncMap]_vars
  /\ (pc = "funcs") ~> (pc # "funcs")

\* two functions that call each other have been translated: the second was
\* first reached from the call in the first, while the first was being
\* translated, and its call of the first took the function from FuncMap
C30_Witness ==
  /\ pc = "kernelmd"
  /\ \E bv, bw \in CallInsts :
       /\ bv[2] = 1 /\ bw[2] = 2
       /\ BM.funcs[1].insts[bv[3]].callee = 2
       /\ BM.funcs[2].insts[bw[3]].callee = 1
       /\ M.Insts[ValueMap[bw]].ops[1] = FuncMap[FuncV(1)]
       /\ M.Insts[ValueMap[bv]].ops[1] = FuncMap[FuncV(2)]
  /\ \E bv \in CallInsts : bv[2] = 1 /\ BM.funcs[1].insts[bv[3]].callee = 1

====
